---- MODULE Spec2Model ----
(***************************************************************************)
(* Model of the RequireJS "Go to Definition" provider of vscode-requirejs  *)
(* (src/extension.js, the tree-based ReferenceProvider, lines 225-676).    *)
(*                                                                         *)
(* JavaScript strings are sequences of one-character strings, so that      *)
(* indexOf, substr, startsWith, endsWith and concatenation are computed.   *)
(* JavaScript values that may be undefined are records with a kind field.  *)
(***************************************************************************)
EXTENDS Integers, Sequences, FiniteSets, TLC

VARIABLES
  activated,              \* activate(context) has run
  subscriptions,          \* context.subscriptions
  config,                 \* workspace configuration 'requireModuleSupport'
  docs,                   \* the host's text documents: file -> version, text
                          \* and history, the text at each version so far
  parsedModuleCache,      \* ReferenceProvider.parsedModuleCache (LRU)
  moduleDependencyCache,  \* ReferenceProvider.moduleDependencyCache (LRU)
  pending,                \* searchModule promises waiting for openTextDocument
  last,                   \* what the most recent handler did and returned
  seen,                   \* <<file, version>> pairs parsed since the caches were last reset
  pth,                    \* one resolveModulePath call: inputs and result
  dep,                    \* one dependency extraction: source and table
  res                     \* one findOriginatingModuleDependency run, step by step

vars == <<activated, subscriptions, config, docs, parsedModuleCache,
          moduleDependencyCache, pending, last, seen, pth, dep, res>>

sysVars == <<activated, subscriptions, config, docs, parsedModuleCache,
             moduleDependencyCache, pending, last, seen>>

-----------------------------------------------------------------------------
(* JavaScript values *)

Undefined == [kind |-> "undefined"]
Null == [kind |-> "null"]
Str(s) == [kind |-> "string", chars |-> s]
Num(n) == [kind |-> "number", num |-> n]

\* ToBoolean of a value: undefined, null, '' and 0 are falsy.
Truthy(v) ==
  CASE v.kind = "undefined" -> FALSE
    [] v.kind = "string" -> v.chars # <<>>
    [] v.kind = "number" -> v.num # 0
    [] v.kind = "null" -> FALSE
    [] OTHER -> TRUE

-----------------------------------------------------------------------------
(* String.prototype operations on character sequences *)

RECURSIVE IndexFrom(_, _, _)
IndexFrom(s, c, i) ==
  IF i > Len(s) THEN 0
  ELSE IF s[i] = c THEN i
  ELSE IndexFrom(s, c, i + 1)

\* s.indexOf(c): zero-based index of the first occurrence, -1 when absent.
IndexOf(s, c) == IndexFrom(s, c, 1) - 1

\* s.substr(from, length) and s.substr(from), zero-based from.
Substr2(s, from, length) == SubSeq(s, from + 1, from + length)
Substr1(s, from) == SubSeq(s, from + 1, Len(s))

StartsWith(s, prefix) ==
  /\ Len(prefix) <= Len(s)
  /\ SubSeq(s, 1, Len(prefix)) = prefix

EndsWith(s, suffix) ==
  /\ Len(suffix) <= Len(s)
  /\ SubSeq(s, Len(s) - Len(suffix) + 1, Len(s)) = suffix

-----------------------------------------------------------------------------
(* Node's posix path module, as called by resolveModulePath *)

\* The segments of a path between '/' separators, empty segments included.
RECURSIVE Split(_)
Split(s) ==
  LET i == IndexOf(s, "/")
  IN IF i < 0 THEN <<s>>
     ELSE <<Substr2(s, 0, i)>> \o Split(Substr1(s, i + 1))

RECURSIVE JoinSegs(_)
JoinSegs(segs) ==
  IF segs = <<>> THEN <<>>
  ELSE IF Len(segs) = 1 THEN segs[1]
  ELSE segs[1] \o <<"/">> \o JoinSegs(Tail(segs))

DotDot == <<".", ".">>

\* normalizeString: drops empty and '.' segments and resolves '..' segments.
RECURSIVE NormalizeSegs(_, _, _)
NormalizeSegs(segs, acc, allowAboveRoot) ==
  IF segs = <<>> THEN acc
  ELSE
    LET s == Head(segs)
        rest == Tail(segs)
    IN IF s = <<>> \/ s = <<".">> THEN NormalizeSegs(rest, acc, allowAboveRoot)
       ELSE IF s = DotDot THEN
         IF acc # <<>> /\ acc[Len(acc)] # DotDot
           THEN NormalizeSegs(rest, SubSeq(acc, 1, Len(acc) - 1), allowAboveRoot)
         ELSE IF allowAboveRoot
           THEN NormalizeSegs(rest, Append(acc, s), allowAboveRoot)
         ELSE NormalizeSegs(rest, acc, allowAboveRoot)
       ELSE NormalizeSegs(rest, Append(acc, s), allowAboveRoot)

\* path.normalize(p)
PathNormalize(p) ==
  IF p = <<>> THEN <<".">>
  ELSE
    LET isAbsolute == p[1] = "/"
        trailingSeparator == p[Len(p)] = "/"
        body == JoinSegs(NormalizeSegs(Split(p), <<>>, ~isAbsolute))
        body1 == IF body = <<>> /\ ~isAbsolute THEN <<".">> ELSE body
        body2 == IF body1 # <<>> /\ trailingSeparator THEN body1 \o <<"/">> ELSE body1
    IN IF isAbsolute THEN <<"/">> \o body2 ELSE body2

\* path.join(a, b)
PathJoin(a, b) ==
  LET joined == IF a = <<>> THEN b
                ELSE IF b = <<>> THEN a
                ELSE a \o <<"/">> \o b
  IN PathNormalize(joined)

\* Index (one-based) of the '/' that ends the directory part, scanning from
\* the end and skipping trailing separators; 0 when there is none.
RECURSIVE DirnameEnd(_, _, _)
DirnameEnd(p, i, matchedSlash) ==
  IF i < 2 THEN 0
  ELSE IF p[i] = "/" THEN (IF matchedSlash THEN DirnameEnd(p, i - 1, TRUE) ELSE i)
  ELSE DirnameEnd(p, i - 1, FALSE)

\* path.dirname(p)
PathDirname(p) ==
  IF p = <<>> THEN <<".">>
  ELSE
    LET hasRoot == p[1] = "/"
        end == DirnameEnd(p, Len(p), TRUE)
    IN IF end = 0 THEN (IF hasRoot THEN <<"/">> ELSE <<".">>)
       ELSE IF hasRoot /\ end = 2 THEN <<"/", "/">>
       ELSE SubSeq(p, 1, end - 1)

-----------------------------------------------------------------------------
(* RequireJS configuration and path resolution *)

\* baseUrl set by initializeRequireJs: rootPath joined with the 'modulePath'
\* setting; requirejs keeps it ending with '/'.
BaseUrl == <<"/", "p", "/">>

\* requirejs.toUrl(filePath) with no paths, map or urlArgs configured: an
\* absolute path is left as it is, any other is put under baseUrl.
ToUrl(filePath) ==
  IF filePath # <<>> /\ filePath[1] = "/" THEN filePath
  ELSE BaseUrl \o filePath

JsSuffix == <<".", "j", "s">>

\* ModuleFilePath without the '.js' suffix for plain module paths.
ModuleFilePathNoSuffix(modulePath, pluginExtensions) ==
  LET pluginSeparator == IndexOf(modulePath, "!")
  IN IF pluginSeparator > 0
       THEN Substr1(modulePath, pluginSeparator + 1)
       ELSE modulePath

\* ModuleFilePath appending the plugin's extension without looking at the
\* end of the target.
ModuleFilePathAlwaysAppends(modulePath, pluginExtensions) ==
  LET pluginSeparator == IndexOf(modulePath, "!")
  IN IF pluginSeparator > 0 THEN
       LET pluginName == Substr2(modulePath, 0, pluginSeparator)
           filePath == Substr1(modulePath, pluginSeparator + 1)
       IN IF Truthy(pluginExtensions) /\ pluginName \in DOMAIN pluginExtensions.map
            THEN filePath \o pluginExtensions.map[pluginName]
            ELSE filePath
     ELSE modulePath \o JsSuffix

\* ModuleFilePath taking a '!' at the start of the path as a separator too.
ModuleFilePathSeparatorAnywhere(modulePath, pluginExtensions) ==
  LET pluginSeparator == IndexOf(modulePath, "!")
  IN IF pluginSeparator >= 0 THEN
       LET pluginName == Substr2(modulePath, 0, pluginSeparator)
           filePath == Substr1(modulePath, pluginSeparator + 1)
       IN IF Truthy(pluginExtensions) THEN
            LET pluginExtension ==
                  IF pluginName \in DOMAIN pluginExtensions.map
                    THEN Str(pluginExtensions.map[pluginName])
                    ELSE Undefined
            IN IF Truthy(pluginExtension) /\ ~EndsWith(filePath, pluginExtension.chars)
                 THEN filePath \o pluginExtension.chars
                 ELSE filePath
          ELSE filePath
     ELSE modulePath \o JsSuffix

\* The file path resolveModulePath has before it resolves relative paths:
\* the plugin target with the plugin's extension, or the module path + '.js'.
ModuleFilePath(modulePath, pluginExtensions) ==
  LET pluginSeparator == IndexOf(modulePath, "!")
  IN IF pluginSeparator > 0 THEN
       LET pluginName == Substr2(modulePath, 0, pluginSeparator)
           filePath == Substr1(modulePath, pluginSeparator + 1)
       IN IF Truthy(pluginExtensions) THEN
            LET pluginExtension ==
                  IF pluginName \in DOMAIN pluginExtensions.map
                    THEN Str(pluginExtensions.map[pluginName])
                    ELSE Undefined
            IN IF Truthy(pluginExtension) /\ ~EndsWith(filePath, pluginExtension.chars)
                 THEN filePath \o pluginExtension.chars
                 ELSE filePath
          ELSE filePath
     ELSE modulePath \o JsSuffix

\* resolveModulePath(modulePath, currentFilePath)
resolveModulePath(modulePath, currentFilePath, pluginExtensions) ==
  LET filePath == ModuleFilePath(modulePath, pluginExtensions)
      located == IF StartsWith(filePath, <<".", "/">>)
                   THEN PathJoin(PathDirname(currentFilePath), filePath)
                   ELSE filePath
  IN PathNormalize(ToUrl(located))

-----------------------------------------------------------------------------
(* Inputs of the path resolution *)

\* Longest generated module path, in characters.
MaxPathLen == 4

PathAlphabet == {".", "/", "!", "a"}

GeneratedPaths == UNION {[1..k -> PathAlphabet] : k \in 0..MaxPathLen}

P_sibling == <<".", "/", "s", "i", "b", "l", "i", "n", "g">>
P_textTemplateHtml ==
  <<"t", "e", "x", "t", "!", ".", "/", "t", "e", "m", "p", "l", "a", "t", "e",
    ".", "h", "t", "m", "l">>
P_textTemplate ==
  <<"t", "e", "x", "t", "!", ".", "/", "t", "e", "m", "p", "l", "a", "t", "e">>
P_cssStyle == <<"c", "s", "s", "!", ".", "/", "s", "t", "y", "l", "e">>
P_libUtil == <<"l", "i", "b", "/", "u", "t", "i", "l">>

CuratedPaths == {P_sibling, P_textTemplateHtml, P_textTemplate, P_cssStyle, P_libUtil}

F_main == <<"/", "p", "r", "o", "j", "e", "c", "t", "/", "s", "r", "c", "/",
            "m", "a", "i", "n", ".", "j", "s">>
F_rootMain == <<"/", "m", ".", "j", "s">>

CurrentPaths == {F_main, F_rootMain}

E_html == <<".", "h", "t", "m", "l">>
E_a == <<".", "a">>
N_text == <<"t", "e", "x", "t">>
N_a == <<"a">>

\* The 'pluginExtensions' setting: not set, set to {} or naming two plugins.
ConfiguredExtensions ==
  [kind |-> "object", map |-> (N_text :> E_html) @@ (N_a :> E_a)]
NoExtensions == [kind |-> "object", map |-> [n \in {} |-> <<>>]]
PluginExtensionSettings == {Undefined, NoExtensions, ConfiguredExtensions}

PthIdle == [pc |-> "idle"]

PthInputs ==
  [pc : {"call"},
   modulePath : GeneratedPaths \cup CuratedPaths,
   currentFilePath : CurrentPaths,
   pluginExtensions : PluginExtensionSettings]

\* One call of resolveModulePath on the drawn inputs.
ResolvePath ==
  /\ pth.pc = "call"
  /\ pth' = [pc |-> "done",
             modulePath |-> pth.modulePath,
             currentFilePath |-> pth.currentFilePath,
             pluginExtensions |-> pth.pluginExtensions,
             filePath |-> ModuleFilePath(pth.modulePath, pth.pluginExtensions),
             result |-> resolveModulePath(pth.modulePath, pth.currentFilePath,
                                          pth.pluginExtensions)]
  /\ UNCHANGED <<sysVars, dep, res>>

-----------------------------------------------------------------------------
(* Source texts and their syntax trees *)

\* A source text is an AMD module of the shape
\*     callee(['path', ...], function (param, ...) {
\*     <tab>statement;        one statement per line
\*     });
\* optionally named, callee('name', [...], function ...), or without the
\* factory, callee([...]); or it is a text that is not valid JavaScript.
\* Body statements are records [s, a, b]:
\*     use      a;                  member     a.b;
\*     decl     var a = b;          assign     a = b;
\*     declnew  var a = new b();    decllit    var a = 1;
\*     assignlit  a = 1;
\*     assigncall  a = b();        assignmember  a = b.baz;
Stmt(s, a, b) == [s |-> s, a |-> a, b |-> b]

ModuleName == <<"m", "y", "N", "a", "m", "e">>

\* A tree is the sequence of its nodes in the order amodroParse.traverse
\* visits them (depth first, children in source order); a node refers to
\* its parent and children by their positions in that sequence, 0 for none.
\* line is one-based and column zero-based, as esprima's loc.start.
Node(type, line, column, parent) ==
  [type |-> type, name |-> <<>>, line |-> line, column |-> column,
   endColumn |-> column, parent |-> parent, computed |-> FALSE,
   object |-> 0, property |-> 0, callee |-> 0, arguments |-> <<>>,
   elements |-> <<>>, params |-> <<>>, body |-> 0,
   id |-> 0, init |-> 0, left |-> 0, right |-> 0, value |-> Undefined]

Ident(name, line, column, parent) ==
  [Node("Identifier", line, column, parent) EXCEPT
     !.name = name, !.endColumn = column + Len(name)]

Literal(value, line, column, parent) ==
  [Node("Literal", line, column, parent) EXCEPT !.value = value]

\* The statements callee(...).b: the kinds of their argument lists.
ReqKinds == {"reqstr", "reqnone", "reqtwo", "reqnum", "reqid"}

\* The module path and the other arguments of the calls in the statements.
A_path == <<".", "/", "s">>
A_other == <<"o">>
A_name == <<"y">>

\* The property read on the right-hand side of a = b.baz.
A_member == <<"b", "a", "z">>

\* The argument nodes of callee(...) in a statement, the first at the
\* given column, and the width of the argument list in the text.
ReqArgs(st, line, column, parent) ==
  CASE st.s = "reqstr" -> << Literal(Str(A_path), line, column, parent) >>
    [] st.s = "reqnone" -> << >>
    [] st.s = "reqtwo" ->
         << Literal(Str(A_path), line, column, parent),
            Literal(Str(A_other), line, column + Len(A_path) + 4, parent) >>
    [] st.s = "reqnum" -> << Literal(Num(1), line, column, parent) >>
    [] st.s = "reqid" -> << Ident(A_name, line, column, parent) >>

ReqWidth(st) ==
  CASE st.s = "reqstr" -> Len(A_path) + 2
    [] st.s = "reqnone" -> 0
    [] st.s = "reqtwo" -> Len(A_path) + 2 + 2 + Len(A_other) + 2
    [] st.s = "reqnum" -> 1
    [] st.s = "reqid" -> Len(A_name)

\* The nodes of the statement a(...).b with the given argument nodes.
ReqNodes(st, line, c, o, blk, args) ==
  << Node("ExpressionStatement", line, c, blk),
     [Node("MemberExpression", line, c, o + 1) EXCEPT
        !.object = o + 3, !.property = o + 5 + Len(args)],
     [Node("CallExpression", line, c, o + 2) EXCEPT
        !.callee = o + 4,
        !.arguments = [i \in 1..Len(args) |-> o + 4 + i]],
     Ident(st.a, line, c, o + 3) >>
  \o args
  \o << Ident(st.b, line, c + Len(st.a) + 1 + ReqWidth(st) + 2, o + 2) >>

\* The nodes of the statement st on the given line, the first of them at
\* position o + 1 of the tree, inside the block at position blk.
StmtNodes(st, line, o, blk) ==
  LET c == 1
      rhs == c + Len(st.a) + 3
      vrhs == c + 4 + Len(st.a) + 3
  IN CASE st.s = "use" ->
            << Node("ExpressionStatement", line, c, blk),
               Ident(st.a, line, c, o + 1) >>
       [] st.s = "member" ->
            << Node("ExpressionStatement", line, c, blk),
               [Node("MemberExpression", line, c, o + 1) EXCEPT
                  !.object = o + 3, !.property = o + 4],
               Ident(st.a, line, c, o + 2),
               Ident(st.b, line, c + Len(st.a) + 1, o + 2) >>
       [] st.s = "decl" ->
            << Node("VariableDeclaration", line, c, blk),
               [Node("VariableDeclarator", line, c + 4, o + 1) EXCEPT
                  !.id = o + 3, !.init = o + 4],
               Ident(st.a, line, c + 4, o + 2),
               Ident(st.b, line, vrhs, o + 2) >>
       [] st.s = "assign" ->
            << Node("ExpressionStatement", line, c, blk),
               [Node("AssignmentExpression", line, c, o + 1) EXCEPT
                  !.left = o + 3, !.right = o + 4],
               Ident(st.a, line, c, o + 2),
               Ident(st.b, line, rhs, o + 2) >>
       [] st.s = "declnew" ->
            << Node("VariableDeclaration", line, c, blk),
               [Node("VariableDeclarator", line, c + 4, o + 1) EXCEPT
                  !.id = o + 3, !.init = o + 4],
               Ident(st.a, line, c + 4, o + 2),
               [Node("NewExpression", line, vrhs, o + 2) EXCEPT !.callee = o + 5],
               Ident(st.b, line, vrhs + 4, o + 4) >>
       [] st.s = "decllit" ->
            << Node("VariableDeclaration", line, c, blk),
               [Node("VariableDeclarator", line, c + 4, o + 1) EXCEPT
                  !.id = o + 3, !.init = o + 4],
               Ident(st.a, line, c + 4, o + 2),
               Literal(Num(1), line, vrhs, o + 2) >>
       [] st.s = "assignlit" ->
            << Node("ExpressionStatement", line, c, blk),
               [Node("AssignmentExpression", line, c, o + 1) EXCEPT
                  !.left = o + 3, !.right = o + 4],
               Ident(st.a, line, c, o + 2),
               Literal(Num(1), line, rhs, o + 2) >>
       [] st.s = "assigncall" ->
            << Node("ExpressionStatement", line, c, blk),
               [Node("AssignmentExpression", line, c, o + 1) EXCEPT
                  !.left = o + 3, !.right = o + 4],
               Ident(st.a, line, c, o + 2),
               [Node("CallExpression", line, rhs, o + 2) EXCEPT !.callee = o + 5],
               Ident(st.b, line, rhs, o + 4) >>
       [] st.s = "assignmember" ->
            << Node("ExpressionStatement", line, c, blk),
               [Node("AssignmentExpression", line, c, o + 1) EXCEPT
                  !.left = o + 3, !.right = o + 4],
               Ident(st.a, line, c, o + 2),
               [Node("MemberExpression", line, rhs, o + 2) EXCEPT
                  !.object = o + 5, !.property = o + 6],
               Ident(st.b, line, rhs, o + 4),
               Ident(A_member, line, rhs + Len(st.b) + 1, o + 4) >>
       [] st.s \in ReqKinds ->
            ReqNodes(st, line, c, o, blk, ReqArgs(st, line, c + Len(st.a) + 1, o + 3))

RECURSIVE BodyNodes(_, _, _, _)
BodyNodes(body, i, o, blk) ==
  IF i > Len(body) THEN <<>>
  ELSE LET ns == StmtNodes(body[i], i + 1, o, blk)
       IN ns \o BodyNodes(body, i + 1, o + Len(ns), blk)

\* The string literals 'p1', 'p2', ... of the dependency array, the first
\* at the given column; each is followed by ', '.
RECURSIVE PathLiterals(_, _, _, _)
PathLiterals(paths, i, column, parent) ==
  IF i > Len(paths) THEN <<>>
  ELSE <<Literal(Str(paths[i]), 1, column, parent)>>
       \o PathLiterals(paths, i + 1, column + Len(paths[i]) + 4, parent)

RECURSIVE ParamIdents(_, _, _, _)
ParamIdents(params, i, column, parent) ==
  IF i > Len(params) THEN <<>>
  ELSE <<Ident(params[i], 1, column, parent)>>
       \o ParamIdents(params, i + 1, column + Len(params[i]) + 2, parent)

RECURSIVE SumLen(_)
SumLen(strs) == IF strs = <<>> THEN 0 ELSE Len(Head(strs)) + SumLen(Tail(strs))

\* Width of a list of n items of the given total length and per-item
\* decoration (quotes), separated by ', '.
ListWidth(strs, decoration) ==
  SumLen(strs) + decoration * Len(strs)
    + (IF Len(strs) > 1 THEN 2 * (Len(strs) - 1) ELSE 0)

\* amodroParse.parseFileContents(fileName, text, { loc: true }) of a valid
\* source text.
ParseTree(src) ==
  LET nameNodes == IF src.named
                     THEN <<Literal(Str(ModuleName), 1, Len(src.callee) + 1, 3)>>
                     ELSE <<>>
      arrayAt == 5 + Len(nameNodes)
      arrayCol == Len(src.callee) + 1
                    + (IF src.named THEN Len(ModuleName) + 4 ELSE 0)
      pathNodes == PathLiterals(src.paths, 1, arrayCol + 1, arrayAt)
      funcAt == arrayAt + Len(pathNodes) + 1
      funcCol == arrayCol + ListWidth(src.paths, 2) + 4
      paramNodes == ParamIdents(src.params, 1, funcCol + 10, funcAt)
      blockAt == funcAt + Len(paramNodes) + 1
      blockCol == funcCol + 10 + ListWidth(src.params, 0) + 2
      args == (IF src.named THEN <<5>> ELSE <<>>) \o <<arrayAt>>
                \o (IF src.hasFactory THEN <<funcAt>> ELSE <<>>)
      head == << Node("Program", 1, 0, 0),
                 Node("ExpressionStatement", 1, 0, 1),
                 [Node("CallExpression", 1, 0, 2) EXCEPT
                    !.callee = 4, !.arguments = args],
                 Ident(src.callee, 1, 0, 3) >>
               \o nameNodes
               \o << [Node("ArrayExpression", 1, arrayCol, 3) EXCEPT
                        !.elements = [i \in 1..Len(pathNodes) |-> arrayAt + i]] >>
               \o pathNodes
  IN IF src.hasFactory
       THEN head
            \o << [Node("FunctionExpression", 1, funcCol, 3) EXCEPT
                     !.params = [i \in 1..Len(paramNodes) |-> funcAt + i],
                     !.body = blockAt] >>
            \o paramNodes
            \o << Node("BlockStatement", 1, blockCol, funcAt) >>
            \o BodyNodes(src.body, 1, blockAt, blockAt)
       ELSE head

\* The outcome of parsing: a tree, or the syntax error that is thrown.
Parse(src) ==
  IF src.valid THEN [ok |-> TRUE, tree |-> ParseTree(src)]
  ELSE [ok |-> FALSE, tree |-> <<>>]

-----------------------------------------------------------------------------
(* Tree queries *)

N_define == <<"d", "e", "f", "i", "n", "e">>
N_require == <<"r", "e", "q", "u", "i", "r", "e">>
N_requirejs == <<"r", "e", "q", "u", "i", "r", "e", "j", "s">>

\* Position of the first define(...) or require(...) call of the tree, 0
\* when there is none.
RECURSIVE FindModuleCall(_, _)
FindModuleCall(tree, i) ==
  IF i > Len(tree) THEN 0
  ELSE IF /\ tree[i].type = "CallExpression"
          /\ tree[i].callee # 0
          /\ tree[tree[i].callee].type = "Identifier"
          /\ tree[tree[i].callee].name \in {N_define, N_require}
       THEN i
  ELSE FindModuleCall(tree, i + 1)

\* The values of the string literals among the given nodes, in order.
RECURSIVE StringValues(_, _)
StringValues(tree, idxs) ==
  IF idxs = <<>> THEN <<>>
  ELSE LET n == tree[Head(idxs)]
       IN (IF n.type = "Literal" /\ n.value.kind = "string" THEN <<n.value>> ELSE <<>>)
          \o StringValues(tree, Tail(idxs))

\* amodroParse.findDependencies(fileName, astRoot): the module paths of the
\* first define/require call, with the names of the factory's formal
\* parameters as the property params.
findDependencies(tree) ==
  LET call == FindModuleCall(tree, 1)
      args == IF call = 0 THEN <<>> ELSE tree[call].arguments
      arrays == SelectSeq(args, LAMBDA a : tree[a].type = "ArrayExpression")
      funcs == SelectSeq(args, LAMBDA a : tree[a].type = "FunctionExpression")
  IN [modules |-> IF arrays = <<>> THEN <<>>
                  ELSE StringValues(tree, tree[arrays[1]].elements),
      params |-> IF funcs = <<>> THEN <<>>
                 ELSE [i \in 1..Len(tree[funcs[1]].params) |->
                         tree[tree[funcs[1]].params[i]].name]]

\* obj[key] of a JavaScript object used as a map.
Lookup(obj, key) == IF key \in DOMAIN obj THEN obj[key] ELSE Undefined

EmptyObject == [k \in {} |-> Undefined]

\* The reduce of getModuleDependencies: result[param] = dependencies[index]
\* for every formal parameter, a later parameter of the same name winning.
RECURSIVE PairFrom(_, _, _)
PairFrom(dependencies, index, result) ==
  IF index > Len(dependencies.params) THEN result
  ELSE
    LET param == dependencies.params[index]
        value == IF index <= Len(dependencies.modules)
                   THEN dependencies.modules[index]
                   ELSE Undefined
    IN PairFrom(dependencies, index + 1,
                [k \in DOMAIN result \cup {param} |->
                   IF k = param THEN value ELSE result[k]])

\* PairDependencies reading dependencies[index + 1].
PairDependenciesShifted(dependencies) ==
  PairFrom([dependencies EXCEPT !.modules = IF @ = <<>> THEN <<>> ELSE Tail(@)],
           1, EmptyObject)

\* PairDependencies starting over at the first path for the parameters
\* beyond the paths.
PairDependenciesWrapping(dependencies) ==
  PairFrom([dependencies EXCEPT !.modules =
              IF @ = <<>> THEN <<>>
              ELSE [i \in 1..Len(dependencies.params) |-> @[((i - 1) % Len(@)) + 1]]],
           1, EmptyObject)

PairDependencies(dependencies) == PairFrom(dependencies, 1, EmptyObject)

\* findIdentifier(astRoot, identifier): the position of the first
\* Identifier node of that name, 0 when there is none.
RECURSIVE IdentifierFrom(_, _, _)
IdentifierFrom(tree, identifier, i) ==
  IF i > Len(tree) THEN 0
  ELSE IF tree[i].type = "Identifier" /\ tree[i].name = identifier THEN i
  ELSE IdentifierFrom(tree, identifier, i + 1)

findIdentifier(tree, identifier) == IdentifierFrom(tree, identifier, 1)

\* node.loc.line: esprima's loc has the properties start and end only.
LocLine(node) == Undefined

\* a > b of JavaScript for a number b: false when a is undefined.
GreaterThan(a, b) == a.kind = "number" /\ a.num > b

\* The traversal of findIdentifierWinthinRange from node i on: the
\* Identifier node found (0 for none) and the number of nodes visited.
RECURSIVE WithinRangeFrom(_, _, _, _)
WithinRangeFrom(tree, line, column, i) ==
  IF i > Len(tree) THEN [currentNode |-> 0, visited |-> i - 1]
  ELSE IF /\ tree[i].type = "Identifier"
          /\ tree[i].line = line
          /\ tree[i].column = column
       THEN [currentNode |-> i, visited |-> i]
  ELSE IF GreaterThan(LocLine(tree[i]), line)
       THEN [currentNode |-> 0, visited |-> i]
  ELSE WithinRangeFrom(tree, line, column, i + 1)

\* findIdentifierWinthinRange comparing esprima's one-based line with the
\* zero-based line of the range.
findIdentifierZeroBasedLine(tree, range) ==
  LET walk == WithinRangeFrom(tree, range.line, range.character, 1)
  IN [currentNode |-> walk.currentNode,
      parentNode |-> IF walk.currentNode = 0 THEN 0
                     ELSE tree[walk.currentNode].parent,
      visited |-> walk.visited]

\* findIdentifierWinthinRange(astRoot, range): range is the zero-based
\* start of the word range.
findIdentifierWinthinRange(tree, range) ==
  LET walk == WithinRangeFrom(tree, range.line + 1, range.character, 1)
  IN [currentNode |-> walk.currentNode,
      parentNode |-> IF walk.currentNode = 0 THEN 0
                     ELSE tree[walk.currentNode].parent,
      visited |-> walk.visited]

\* handleAssignment dropping the rename of the variable when the
\* right-hand side is another kind of expression.
handleAssignmentForgets(tree, assignments, leftNodeName, rightNode) ==
  LET right == tree[rightNode]
      Set(value) == [k \in DOMAIN assignments \cup {leftNodeName} |->
                       IF k = leftNodeName THEN value ELSE assignments[k]]
  IN IF right.type = "Identifier" THEN Set(right.name)
     ELSE IF /\ right.type = "NewExpression"
             /\ right.callee # 0
             /\ tree[right.callee].type = "Identifier"
       THEN Set(tree[right.callee].name)
     ELSE [k \in DOMAIN assignments \ {leftNodeName} |-> assignments[k]]

\* handleAssignment(leftNodeName, rightNode) on the assignments so far.
handleAssignment(tree, assignments, leftNodeName, rightNode) ==
  LET right == tree[rightNode]
      Set(value) == [k \in DOMAIN assignments \cup {leftNodeName} |->
                       IF k = leftNodeName THEN value ELSE assignments[k]]
  IN IF right.type = "Identifier" THEN Set(right.name)
     ELSE IF /\ right.type = "NewExpression"
             /\ right.callee # 0
             /\ tree[right.callee].type = "Identifier"
       THEN Set(tree[right.callee].name)
     ELSE assignments

\* The traversal of getVariableAssignments from node i on.
RECURSIVE AssignmentsFrom(_, _, _, _)
AssignmentsFrom(tree, stopNode, i, assignments) ==
  IF i > Len(tree) \/ i = stopNode THEN assignments
  ELSE
    LET node == tree[i]
        next ==
          IF node.type = "VariableDeclarator" THEN
            IF node.id # 0 /\ tree[node.id].type = "Identifier" /\ node.init # 0
              THEN handleAssignment(tree, assignments, tree[node.id].name, node.init)
              ELSE assignments
          ELSE IF node.type = "AssignmentExpression" THEN
            IF node.left # 0 /\ tree[node.left].type = "Identifier" /\ node.right # 0
              THEN handleAssignment(tree, assignments, tree[node.left].name, node.right)
              ELSE assignments
          ELSE assignments
    IN AssignmentsFrom(tree, stopNode, i + 1, next)

\* getVariableAssignments traversing the whole tree, past stopNode.
getVariableAssignmentsWholeTree(tree, stopNode) ==
  AssignmentsFrom(tree, 0, 1, [k \in {} |-> <<>>])

\* getVariableAssignments(astRoot, stopNode)
getVariableAssignments(tree, stopNode) ==
  AssignmentsFrom(tree, stopNode, 1, [k \in {} |-> <<>>])

-----------------------------------------------------------------------------
(* findOriginatingModuleDependency *)

\* OriginStart taking the selected identifier as the imported one, also
\* for the property of a member expression.
OriginStartNoMember(tree, identifier, moduleDependencies) ==
  LET selected == tree[identifier.currentNode].name
      modulePath == Lookup(moduleDependencies, selected)
  IN [pc |-> IF Truthy(modulePath) THEN "return" ELSE "loop",
      shortcut |-> FALSE, modulePath |-> modulePath,
      imported |-> selected, selected |-> selected, isMember |-> FALSE,
      assignments |-> IF Truthy(modulePath) THEN [k \in {} |-> <<>>]
                      ELSE getVariableAssignments(tree, identifier.currentNode)]

\* Lines 468-515: member detection, the require('module').member short
\* cut, the first table lookup and, on a miss, the recorded assignments.
\* pc is "return" when the function returns without entering the loop.
OriginStart(tree, identifier, moduleDependencies) ==
  LET currentNode == tree[identifier.currentNode]
      selected == currentNode.name
      hasParent == identifier.parentNode # 0
      parentNode == tree[identifier.parentNode]
      isMemberShape ==
        /\ hasParent
        /\ parentNode.type = "MemberExpression"
        /\ parentNode.computed = FALSE
        /\ parentNode.property # 0
        /\ tree[parentNode.property].name = selected
        /\ parentNode.object # 0
      object == tree[parentNode.object]
      isMember == isMemberShape /\ object.type = "Identifier"
      isRequireCall ==
        /\ isMemberShape
        /\ object.type = "CallExpression"
        /\ tree[object.callee].type = "Identifier"
        /\ tree[object.callee].name \in {N_require, N_requirejs}
        /\ Len(object.arguments) = 1
        /\ tree[object.arguments[1]].type = "Literal"
      imported == IF isMember THEN object.name ELSE selected
      modulePath == Lookup(moduleDependencies, imported)
  IN IF isRequireCall
       THEN [pc |-> "return", shortcut |-> TRUE,
             modulePath |-> tree[object.arguments[1]].value,
             imported |-> imported, selected |-> selected, isMember |-> FALSE,
             assignments |-> [k \in {} |-> <<>>]]
     ELSE IF Truthy(modulePath)
       THEN [pc |-> "return", shortcut |-> FALSE, modulePath |-> modulePath,
             imported |-> imported, selected |-> selected, isMember |-> isMember,
             assignments |-> [k \in {} |-> <<>>]]
     ELSE [pc |-> "loop", shortcut |-> FALSE, modulePath |-> modulePath,
           imported |-> imported, selected |-> selected, isMember |-> isMember,
           assignments |-> getVariableAssignments(tree, identifier.currentNode)]

\* OriginStep replacing selected by the resolved name for members too.
OriginStepRenamesSelected(st, moduleDependencies) ==
  IF st.imported \notin DOMAIN st.assignments
    THEN [st EXCEPT !.pc = "return"]
  ELSE
    LET declared == st.assignments[st.imported]
        remaining == [k \in DOMAIN st.assignments \ {st.imported} |-> st.assignments[k]]
        modulePath == Lookup(moduleDependencies, declared)
    IN IF Truthy(modulePath)
         THEN [st EXCEPT !.pc = "return", !.assignments = remaining,
                         !.imported = declared, !.modulePath = modulePath,
                         !.selected = declared]
         ELSE [st EXCEPT !.assignments = remaining, !.imported = declared,
                         !.modulePath = modulePath]

\* OriginStep without delete assignments[imported].
OriginStepNoDelete(st, moduleDependencies) ==
  IF st.imported \notin DOMAIN st.assignments
    THEN [st EXCEPT !.pc = "return"]
  ELSE
    LET declared == st.assignments[st.imported]
        modulePath == Lookup(moduleDependencies, declared)
    IN IF Truthy(modulePath)
         THEN [st EXCEPT !.pc = "return",
                         !.imported = declared, !.modulePath = modulePath,
                         !.selected = IF st.isMember THEN st.selected ELSE declared]
         ELSE [st EXCEPT !.imported = declared, !.modulePath = modulePath]

\* Lines 516-536: one pass through the body of the for (;;) loop.
OriginStep(st, moduleDependencies) ==
  IF st.imported \notin DOMAIN st.assignments
    THEN [st EXCEPT !.pc = "return"]
  ELSE
    LET declared == st.assignments[st.imported]
        remaining == [k \in DOMAIN st.assignments \ {st.imported} |-> st.assignments[k]]
        modulePath == Lookup(moduleDependencies, declared)
    IN IF Truthy(modulePath)
         THEN [st EXCEPT !.pc = "return", !.assignments = remaining,
                         !.imported = declared, !.modulePath = modulePath,
                         !.selected = IF st.isMember THEN st.selected ELSE declared]
         ELSE [st EXCEPT !.assignments = remaining, !.imported = declared,
                         !.modulePath = modulePath]

\* The loop run until it leaves, for at most fuel passes.
RECURSIVE OriginRun(_, _, _)
OriginRun(st, moduleDependencies, fuel) ==
  IF st.pc = "return" \/ fuel = 0 THEN st
  ELSE OriginRun(OriginStep(st, moduleDependencies), moduleDependencies, fuel - 1)

\* OriginResult taking the unresolved name itself as the module path.
OriginResultGuessesPath(st) ==
  [modulePath |-> IF Truthy(st.modulePath) THEN st.modulePath ELSE Str(st.imported),
   imported |-> IF st.shortcut THEN Undefined ELSE Str(st.imported),
   selected |-> Str(st.selected),
   returned |-> st.pc = "return"]

\* The object findOriginatingModuleDependency returns; the short cut
\* returns no imported property.
OriginResult(st) ==
  [modulePath |-> st.modulePath,
   imported |-> IF st.shortcut THEN Undefined ELSE Str(st.imported),
   selected |-> Str(st.selected),
   returned |-> st.pc = "return"]

\* findOriginatingModuleDependency(astRoot, identifier, moduleDependencies).
\* Every pass of the loop that does not leave it deletes one recorded
\* assignment, so one pass more than there are assignments is enough.
findOriginatingModuleDependency(tree, identifier, moduleDependencies) ==
  LET Run(st) == OriginRun(st, moduleDependencies,
                           Cardinality(DOMAIN st.assignments) + 1)
  IN OriginResult(Run(OriginStart(tree, identifier, moduleDependencies)))

-----------------------------------------------------------------------------
(* Inputs of the dependency extraction and of the identifier resolution *)

N_foo == <<"f", "o", "o">>
N_bar == <<"b", "a", "r">>
N_baz == <<"b", "a", "z">>
N_local == <<"l", "o", "c", "a", "l">>
N_x == <<"x">>
N_y == <<"y">>
N_tpl == <<"t", "p", "l">>
P_a == <<"a">>
P_b == <<"b">>

\* Longest dependency array and parameter list of the generated headers.
MaxDeps == 2

SeqsUpTo(S, n) == UNION {[1..k -> S] : k \in 0..n}

\* define/require calls, named or not, with or without a factory.
HeaderSources ==
  [valid : {TRUE}, callee : {N_define, N_require}, named : BOOLEAN,
   paths : SeqsUpTo({P_a, P_b}, MaxDeps), hasFactory : BOOLEAN,
   params : SeqsUpTo({N_x, N_y}, MaxDeps), body : {<<>>}]

DepIdle == [pc |-> "idle"]

\* Parsing a header and extracting its dependency table.
ExtractDependencies ==
  /\ dep.pc = "extract"
  /\ dep' = [pc |-> "done", src |-> dep.src,
             table |-> PairDependencies(findDependencies(ParseTree(dep.src)))]
  /\ UNCHANGED <<sysVars, pth, res>>

\* Most statements in a generated factory body.
MaxStmts == 3

BodyStatements ==
  { Stmt("use", N_foo, <<>>), Stmt("use", N_local, <<>>), Stmt("use", N_x, <<>>),
    Stmt("member", N_foo, N_baz), Stmt("member", N_local, N_baz),
    Stmt("member", N_x, N_x), Stmt("member", N_foo, N_foo),
    Stmt("decl", N_local, N_foo), Stmt("decl", N_x, N_local),
    Stmt("decl", N_x, N_x), Stmt("assign", N_local, N_x),
    Stmt("declnew", N_local, N_foo), Stmt("assignlit", N_local, <<>>) }

\* foo is bound to './sibling'; in the second header local is a trailing
\* formal parameter without a module path, in the third 'lib/util' is a
\* trailing module path without a formal parameter.
ResolveHeader(src) == Len(src.paths) = 1 \/ Len(src.params) = 1

ResolveSources ==
  [valid : {TRUE}, callee : {N_define}, named : {FALSE},
   paths : {<<P_sibling>>, <<P_sibling, P_libUtil>>}, hasFactory : {TRUE},
   params : {<<N_foo>>, <<N_foo, N_local>>},
   body : SeqsUpTo(BodyStatements, MaxStmts)]

\* Statements callee(...).b with every kind of argument list, alone or
\* after var baz = foo.
RequireStatements ==
  { Stmt(k, a, b) : k \in ReqKinds, a \in {N_require, N_requirejs, N_foo},
                    b \in {N_baz, N_foo} }

\* Declarations of and assignments to local with every kind of right-hand
\* side, and uses of local.
AssignStatements ==
  { Stmt("decl", N_local, N_foo), Stmt("declnew", N_local, N_foo),
    Stmt("decl", N_local, N_x), Stmt("assign", N_local, N_x),
    Stmt("decllit", N_local, <<>>), Stmt("assignlit", N_local, <<>>),
    Stmt("assigncall", N_local, N_foo), Stmt("assignmember", N_local, N_foo),
    Stmt("member", N_local, N_baz), Stmt("use", N_local, <<>>) }

AssignSources ==
  [valid : {TRUE}, callee : {N_define}, named : {FALSE},
   paths : {<<P_sibling>>}, hasFactory : {TRUE},
   params : {<<N_foo>>},
   body : SeqsUpTo(AssignStatements, MaxStmts)]

RequireSources ==
  [valid : {TRUE}, callee : {N_define}, named : {FALSE},
   paths : {<<P_sibling>>}, hasFactory : {TRUE},
   params : {<<N_foo>>},
   body : {<<r>> : r \in RequireStatements}
            \cup {<<Stmt("decl", N_baz, N_foo), r>> : r \in RequireStatements}]

\* Where the words of a text start: its identifiers and 'var' keywords,
\* as zero-based editor positions.
WordStarts(tree) ==
  { [line |-> tree[i].line - 1, character |-> tree[i].column] :
      i \in { j \in 1..Len(tree) :
                tree[j].type \in {"Identifier", "VariableDeclaration"} } }

ResIdle == [pc |-> "idle"]

\* findIdentifierWinthinRange on the drawn text and word range.
ResolveFind ==
  /\ res.pc = "find"
  /\ LET tree == ParseTree(res.src)
         identifier == findIdentifierWinthinRange(tree, res.range)
     IN res' = [pc |-> IF identifier.currentNode = 0 THEN "none" ELSE "start",
                src |-> res.src, range |-> res.range, identifier |-> identifier]
  /\ UNCHANGED <<sysVars, pth, dep>>

\* getModuleDependencies and findOriginatingModuleDependency up to the loop.
ResolveStart ==
  /\ res.pc = "start"
  /\ LET tree == ParseTree(res.src)
         table == PairDependencies(findDependencies(tree))
         st == OriginStart(tree, res.identifier, table)
     IN res' = [pc |-> IF st.pc = "return" THEN "done" ELSE "loop",
                src |-> res.src, range |-> res.range,
                identifier |-> res.identifier, table |-> table, st |-> st,
                recorded |-> st.assignments, passes |-> 0]
  /\ UNCHANGED <<sysVars, pth, dep>>

\* One pass of the rename loop.
ResolveLoop ==
  /\ res.pc = "loop"
  /\ LET st == OriginStep(res.st, res.table)
     IN res' = [res EXCEPT !.pc = IF st.pc = "return" THEN "done" ELSE "loop",
                           !.st = st, !.passes = @ + 1]
  /\ UNCHANGED <<sysVars, pth, dep>>

-----------------------------------------------------------------------------
(* The host: files, documents and settings *)

F_sibling == <<"/", "p", "r", "o", "j", "e", "c", "t", "/", "s", "r", "c", "/",
               "s", "i", "b", "l", "i", "n", "g", ".", "j", "s">>
F_template == <<"/", "p", "r", "o", "j", "e", "c", "t", "/", "s", "r", "c", "/",
                "t", "e", "m", "p", "l", "a", "t", "e", ".", "h", "t", "m", "l">>

\* The files that exist; any other path fails to open.
Files == {F_main, F_sibling, F_template}

\* TextDocument.languageId
LanguageOf(f) == IF f = F_template THEN "html" ELSE "javascript"

JsFiles == {f \in Files : LanguageOf(f) = "javascript"}

\* The texts the documents may hold.
\*   main1   define(['./sibling', 'text!./template'], function (foo, tpl) {
\*               foo.baz;
\*               var local = foo;
\*               local.baz;
\*               tpl;
\*           });
\*   main2   define(['lib/util', './sibling'], function (foo, bar) {
\*               foo;
\*               bar.baz;
\*           });
\*   sib1    define([], function () {
\*               var foo = 1;
\*           });
\*   bad     a text with a syntax error;  html  a template, not JavaScript
Source(t) ==
  CASE t = "main1" ->
         [valid |-> TRUE, callee |-> N_define, named |-> FALSE,
          paths |-> <<P_sibling, P_textTemplate>>, hasFactory |-> TRUE,
          params |-> <<N_foo, N_tpl>>,
          body |-> << Stmt("member", N_foo, N_baz), Stmt("decl", N_local, N_foo),
                      Stmt("member", N_local, N_baz), Stmt("use", N_tpl, <<>>) >>]
    [] t = "main2" ->
         [valid |-> TRUE, callee |-> N_define, named |-> FALSE,
          paths |-> <<P_libUtil, P_sibling>>, hasFactory |-> TRUE,
          params |-> <<N_foo, N_bar>>,
          body |-> << Stmt("use", N_foo, <<>>), Stmt("member", N_bar, N_baz) >>]
    [] t = "sib1" ->
         [valid |-> TRUE, callee |-> N_define, named |-> FALSE,
          paths |-> <<>>, hasFactory |-> TRUE, params |-> <<>>,
          body |-> << Stmt("decllit", N_foo, <<>>) >>]
    [] OTHER -> [valid |-> FALSE]

TextsOf(f) ==
  CASE f = F_main -> {"main1", "main2", "bad"}
    [] f = F_sibling -> {"sib1", "bad"}
    [] OTHER -> {"html"}

Texts == {"main1", "main2", "sib1", "bad", "html"}

\* The tree of every text that parses.
Trees == [t \in {u \in Texts : Source(u).valid} |-> ParseTree(Source(t))]

InitialText(f) ==
  CASE f = F_main -> "main1"
    [] f = F_sibling -> "sib1"
    [] OTHER -> "html"

\* Highest document version reached by edits.
MaxVersion == 2

\* Most searchModule promises in flight at a time.
MaxPending == 1

\* The TextDocument the host hands out for a file.
Document(f) ==
  [fileName |-> f, version |-> docs[f].version, text |-> docs[f].text,
   languageId |-> LanguageOf(f)]

\* The word ranges of a text; of a text that does not parse, one word at
\* the start of the file.
WordRanges(t) ==
  IF Source(t).valid THEN WordStarts(Trees[t])
  ELSE {[line |-> 0, character |-> 0]}

\* The settings of 'requireModuleSupport' the model varies.
Settings ==
  [onlyNavigateToFile : BOOLEAN,
   pluginExtensions : {Undefined, ConfiguredExtensions},
   moduleCacheSize : {Undefined, Num(1)}]

-----------------------------------------------------------------------------
(* lru-cache and the versioned cache *)

\* new LRU(max): items are kept most recently used first.
NewLRU(max) == [max |-> max, items |-> <<>>]

LruHas(cache, key) == \E i \in 1..Len(cache.items) : cache.items[i].key = key

LruIndex(cache, key) == CHOOSE i \in 1..Len(cache.items) : cache.items[i].key = key

LruWithout(cache, key) ==
  [cache EXCEPT !.items = SelectSeq(cache.items, LAMBDA it : it.key # key)]

\* cache.get(key): the value, undefined when absent; a hit becomes the
\* most recently used item.
LruGet(cache, key) ==
  IF LruHas(cache, key)
    THEN LET it == cache.items[LruIndex(cache, key)]
         IN [cache |-> [cache EXCEPT !.items = <<it>> \o LruWithout(cache, key).items],
             found |-> TRUE, value |-> it.value]
    ELSE [cache |-> cache, found |-> FALSE, value |-> Undefined]

\* cache.set(key, value): the least recently used items beyond max go.
LruSet(cache, key, value) ==
  LET items == <<[key |-> key, value |-> value]>> \o LruWithout(cache, key).items
  IN [cache EXCEPT !.items =
        IF Len(items) > cache.max THEN SubSeq(items, 1, cache.max) ELSE items]

\* cache.del(key) and cache.reset()
LruDel(cache, key) == LruWithout(cache, key)

\* cache.reset() leaving the items in place.
LruResetKeeps(cache) == cache

LruReset(cache) == [cache EXCEPT !.items = <<>>]

\* getCachedVersionedObject returning the stored object whatever its version.
getCachedVersionedObjectAnyVersion(cache, document) ==
  LET got == LruGet(cache, document.fileName)
  IN IF got.found
       THEN [cache |-> got.cache, object |-> got.value.object,
             found |-> TRUE, entry |-> got.value]
       ELSE [cache |-> got.cache, object |-> Null, found |-> FALSE,
             entry |-> [object |-> Undefined, version |-> 0]]

\* getCachedVersionedObject returning an object of another version and
\* tagging it with the version of the document.
getCachedVersionedObjectRetags(cache, document) ==
  LET OnGot(got) ==
        IF got.found
          THEN [cache |-> LruSet(got.cache, document.fileName,
                                 [object |-> got.value.object,
                                  version |-> document.version]),
                object |-> got.value.object, found |-> TRUE, entry |-> got.value]
          ELSE [cache |-> got.cache, object |-> Null, found |-> FALSE,
                entry |-> [object |-> Undefined, version |-> 0]]
  IN OnGot(LruGet(cache, document.fileName))

\* getCachedVersionedObject(cache, document): the cache after the call and
\* the object returned; entry is what cache.get returned.
getCachedVersionedObject(cache, document) ==
  LET OnGot(got) ==
        IF got.found
          THEN IF got.value.version # document.version
                 THEN [cache |-> LruDel(got.cache, document.fileName),
                       object |-> Null, found |-> TRUE, entry |-> got.value]
                 ELSE [cache |-> got.cache, object |-> got.value.object,
                       found |-> TRUE, entry |-> got.value]
          ELSE [cache |-> got.cache, object |-> Null, found |-> FALSE,
                entry |-> [object |-> Undefined, version |-> 0]]
  IN OnGot(LruGet(cache, document.fileName))

\* setCachedVersionedObject(cache, document, object)
setCachedVersionedObject(cache, document, object) ==
  LruSet(cache, document.fileName,
         [object |-> object, version |-> document.version])

\* What a handler notes about one getCachedVersionedObject call.
LookupNote(which, document, got) ==
  [cache |-> which, fileName |-> document.fileName, version |-> document.version,
   found |-> got.found, entry |-> got.entry, object |-> got.object,
   kept |-> LruHas(got.cache, document.fileName)]

-----------------------------------------------------------------------------
(* ReferenceProvider *)

\* Size of the caches when 'moduleCacheSize' is not set.
DefaultCacheSize == 100

\* The tree a cached astRoot stands for: astRoot objects are immutable and
\* are named by the text they were parsed from.
AstRoot(t) == [kind |-> "ast", text |-> t]
TreeOf(astRoot) == Trees[astRoot.text]

\* getParsedModule parsing the text whether or not the tree is cached.
getParsedModuleAlwaysParses(cache, document) ==
  LET got == getCachedVersionedObject(cache, document)
      note == LookupNote("parsed", document, got)
  IN IF Parse(Source(document.text)).ok
       THEN [cache |-> setCachedVersionedObject(got.cache, document,
                                                 AstRoot(document.text)),
             threw |-> FALSE, astRoot |-> AstRoot(document.text),
             parsed |-> TRUE, lookups |-> <<note>>]
     ELSE [cache |-> got.cache, threw |-> TRUE, astRoot |-> Null,
           parsed |-> TRUE, lookups |-> <<note>>]

\* getParsedModule(document) on the given parsedModuleCache: the cache
\* after the call and the tree, or threw when the parser throws.
getParsedModule(cache, document) ==
  LET OnCached(got, note) ==
        IF Truthy(got.object)
          THEN [cache |-> got.cache, threw |-> FALSE, astRoot |-> got.object,
                parsed |-> FALSE, lookups |-> <<note>>]
        ELSE IF Parse(Source(document.text)).ok
          THEN [cache |-> setCachedVersionedObject(got.cache, document,
                                                    AstRoot(document.text)),
                threw |-> FALSE, astRoot |-> AstRoot(document.text),
                parsed |-> TRUE, lookups |-> <<note>>]
        ELSE [cache |-> got.cache, threw |-> TRUE, astRoot |-> Null,
              parsed |-> TRUE, lookups |-> <<note>>]
      OnGot(got) == OnCached(got, LookupNote("parsed", document, got))
  IN OnGot(getCachedVersionedObject(cache, document))

\* getModuleDependencies(document, astRoot) on the given
\* moduleDependencyCache.
getModuleDependencies(cache, document, astRoot) ==
  LET Extracted(got, note, dependencies) ==
        [cache |-> setCachedVersionedObject(got.cache, document, dependencies),
         dependencies |-> dependencies,
         extracted |-> TRUE, lookups |-> <<note>>]
      OnCached(got, note) ==
        IF Truthy(got.object)
          THEN [cache |-> got.cache, dependencies |-> got.object,
                extracted |-> FALSE, lookups |-> <<note>>]
          ELSE Extracted(got, note,
                         [kind |-> "object",
                          map |-> PairDependencies(findDependencies(TreeOf(astRoot)))])
      OnGot(got) == OnCached(got, LookupNote("dependency", document, got))
  IN OnGot(getCachedVersionedObject(cache, document))

NoDependency == [modulePath |-> Undefined, imported |-> Undefined,
                 selected |-> Undefined, returned |-> TRUE]

NoLocation == [uri |-> <<>>, start |-> <<0, 0>>, end |-> <<0, 0>>]

\* The synchronous part of provideDefinition(document, position), up to
\* the promise it returns; range is the word range at the position, or
\* undefined. outcome is "absent" for Promise.resolve(undefined), "thrown"
\* for an exception that leaves provideDefinition and "pending" for the
\* promise of searchModule, which waits for openTextDocument(uri).
provideDefinition(document, range) ==
  LET base == [parsedCache |-> parsedModuleCache,
               dependencyCache |-> moduleDependencyCache,
               outcome |-> "absent", parsed |-> FALSE, extracted |-> FALSE,
               lookups |-> <<>>, identifier |-> FALSE,
               dependency |-> NoDependency, uri |-> <<>>]
      WithTree(pm) ==
        [base EXCEPT !.parsedCache = pm.cache, !.parsed = pm.parsed,
                     !.lookups = pm.lookups]
      WithTable(pm, md, moduleDependency) ==
        [WithTree(pm) EXCEPT !.dependencyCache = md.cache,
                             !.extracted = md.extracted,
                             !.lookups = pm.lookups \o md.lookups,
                             !.identifier = TRUE,
                             !.dependency = moduleDependency]
      \* from const modulePath = moduleDependency.modulePath on
      OnModulePath(withTable, moduleDependency, modulePath) ==
        IF ~moduleDependency.returned
          \* the rename loop never leaves
          THEN [withTable EXCEPT !.outcome = "hang"]
        ELSE IF ~Truthy(modulePath) THEN withTable
        ELSE IF modulePath.kind # "string"
          \* modulePath.indexOf is not a function
          THEN [withTable EXCEPT !.outcome = "thrown"]
        ELSE [withTable EXCEPT
                !.outcome = "pending",
                !.uri = resolveModulePath(modulePath.chars, document.fileName,
                                          config.pluginExtensions)]
      \* from const moduleDependency = findOriginatingModuleDependency(...) on
      OnDependency(pm, md, moduleDependency) ==
        OnModulePath(WithTable(pm, md, moduleDependency), moduleDependency,
                     moduleDependency.modulePath)
      \* from const moduleDependencies = this.getModuleDependencies(...) on
      OnTable(pm, tree, identifier, md) ==
        OnDependency(pm, md,
                     findOriginatingModuleDependency(tree, identifier,
                                                     md.dependencies.map))
      \* from const identifier = findIdentifierWinthinRange(...) on
      OnIdentifier(pm, tree, identifier) ==
        IF identifier.currentNode = 0 THEN WithTree(pm)
        ELSE OnTable(pm, tree, identifier,
                     getModuleDependencies(moduleDependencyCache, document,
                                           pm.astRoot))
      \* from const astRoot = this.getParsedModule(document) on
      OnParsed(pm) ==
        IF pm.threw THEN [WithTree(pm) EXCEPT !.outcome = "thrown"]
        ELSE OnIdentifier(pm, TreeOf(pm.astRoot),
                          findIdentifierWinthinRange(TreeOf(pm.astRoot), range.start))
  IN IF range.kind = "undefined" THEN base
     ELSE OnParsed(getParsedModule(parsedModuleCache, document))

\* searchModuleThen searching whatever 'onlyNavigateToFile' says.
searchModuleThenIgnoresSetting(newUri, document, searchFor) ==
  LET base == [parsedCache |-> parsedModuleCache, outcome |-> "location",
               parsed |-> FALSE, lookups |-> <<>>, searched |-> FALSE,
               location |-> [uri |-> newUri, start |-> <<0, 0>>, end |-> <<0, 0>>]]
  IN IF Truthy(searchFor) /\ document.languageId = "javascript"
       THEN
         LET pm == getParsedModule(parsedModuleCache, document)
             withTree == [base EXCEPT !.parsedCache = pm.cache, !.parsed = pm.parsed,
                                      !.lookups = pm.lookups, !.searched = TRUE]
         IN IF pm.threw
              THEN [withTree EXCEPT !.outcome = "rejected", !.location = NoLocation]
            ELSE
              LET tree == TreeOf(pm.astRoot)
                  found == findIdentifier(tree, searchFor.chars)
              IN IF found # 0
                   THEN [withTree EXCEPT
                           !.location =
                             [uri |-> newUri,
                              start |-> <<tree[found].line - 1, tree[found].column>>,
                              end |-> <<tree[found].line - 1, tree[found].endColumn>>]]
                   ELSE withTree
       ELSE base

\* The callback searchModule passes to newDocument.then, run on the
\* document the host opened: the Location it returns, or threw when the
\* parser throws (the promise is then rejected).
searchModuleThen(newUri, document, searchFor) ==
  LET base == [parsedCache |-> parsedModuleCache, outcome |-> "location",
               parsed |-> FALSE, lookups |-> <<>>, searched |-> FALSE,
               location |-> [uri |-> newUri, start |-> <<0, 0>>, end |-> <<0, 0>>]]
  IN IF /\ ~config.onlyNavigateToFile
        /\ Truthy(searchFor)
        /\ document.languageId = "javascript"
       THEN
         LET pm == getParsedModule(parsedModuleCache, document)
             withTree == [base EXCEPT !.parsedCache = pm.cache, !.parsed = pm.parsed,
                                      !.lookups = pm.lookups, !.searched = TRUE]
         IN IF pm.threw
              THEN [withTree EXCEPT !.outcome = "rejected", !.location = NoLocation]
            ELSE
              LET tree == TreeOf(pm.astRoot)
                  found == findIdentifier(tree, searchFor.chars)
              IN IF found # 0
                   THEN [withTree EXCEPT
                           !.location =
                             [uri |-> newUri,
                              start |-> <<tree[found].line - 1, tree[found].column>>,
                              end |-> <<tree[found].line - 1, tree[found].endColumn>>]]
                   ELSE withTree
       ELSE base

-----------------------------------------------------------------------------
(* The extension and its host as a state machine *)

NoCache == NewLRU(0)

\* The query a searchModule callback belongs to: the current file, its
\* version and text when provideDefinition ran, and the word range.
NoQuery == [file |-> <<>>, version |-> 0, text |-> "", range |-> Undefined]

NoLast ==
  [op |-> "none", file |-> <<>>, version |-> 0, outcome |-> "none",
   parsed |-> FALSE, extracted |-> FALSE, lookups |-> <<>>, repeat |-> FALSE,
   repeatTable |-> FALSE, bumped |-> FALSE, fresh |-> FALSE,
   range |-> Undefined, requested |-> FALSE, afterConfiguration |-> FALSE,
   requeried |-> FALSE, cleared |-> {}, query |-> NoQuery,
   identifier |-> FALSE, dependency |-> NoDependency, location |-> NoLocation]

\* Per file, the versions at which, since the caches were last cleared, a
\* provideDefinition query last obtained the tree (query), any handler last
\* obtained the tree (tree) and a query last obtained the table (table).
NotSeen == [f \in JsFiles |-> [query |-> 0, tree |-> 0, table |-> 0]]

\* A handler that left with these lookups and this cache obtained the tree.
GotTree(lookups, cache, f) == lookups # <<>> /\ LruHas(cache, f)

SysIdle ==
  /\ activated = FALSE
  /\ subscriptions = <<>>
  /\ docs = [f \in Files |-> [version |-> 1, text |-> InitialText(f),
                              history |-> <<InitialText(f)>>]]
  /\ parsedModuleCache = NoCache
  /\ moduleDependencyCache = NoCache
  /\ pending = <<>>
  /\ last = NoLast
  /\ seen = NotSeen

Init ==
  /\ SysIdle
  /\ config \in Settings
  /\ pth = PthIdle
  /\ dep = DepIdle
  /\ res = ResIdle

\* activate(context): the provider is constructed with the cache size of
\* the settings, RequireJS is initialized and the subscriptions are pushed.
Activate ==
  /\ ~activated
  /\ activated' = TRUE
  /\ LET moduleCacheSize == IF Truthy(config.moduleCacheSize)
                              THEN config.moduleCacheSize.num
                              ELSE DefaultCacheSize
     IN /\ moduleDependencyCache' = NewLRU(moduleCacheSize)
        /\ parsedModuleCache' = NewLRU(moduleCacheSize)
  /\ subscriptions' = subscriptions
       \o <<"onDidChangeConfiguration">> \o <<"registerDefinitionProvider">>
  /\ last' = [NoLast EXCEPT !.op = "activate"]
  /\ UNCHANGED <<config, docs, pending, seen, pth, dep, res>>

\* The host asks for the definition at a position of a JavaScript document.
ProvideDefinition(f, range) ==
  /\ activated
  /\ Len(pending) < MaxPending
  /\ \E document \in {Document(f)} :
     \E r \in {provideDefinition(document, range)} :
        /\ parsedModuleCache' = r.parsedCache
        /\ moduleDependencyCache' = r.dependencyCache
        /\ pending' = IF r.outcome = "pending"
                        THEN Append(pending,
                                    [uri |-> r.uri,
                                     searchFor |-> r.dependency.selected,
                                     file |-> f, version |-> document.version,
                                     text |-> document.text, range |-> range,
                                     dependency |-> r.dependency])
                        ELSE pending
        /\ seen' = [seen EXCEPT ![f] =
                     [query |-> IF GotTree(r.lookups, r.parsedCache, f)
                                  THEN document.version ELSE @.query,
                      tree |-> IF GotTree(r.lookups, r.parsedCache, f)
                                 THEN document.version ELSE @.tree,
                      table |-> IF r.identifier THEN document.version ELSE @.table]]
        /\ last' = [op |-> "provideDefinition", file |-> f,
                    version |-> document.version, outcome |-> r.outcome,
                    parsed |-> r.parsed, extracted |-> r.extracted,
                    lookups |-> r.lookups,
                    repeat |-> seen[f].query = document.version,
                    repeatTable |-> seen[f].table = document.version,
                    bumped |-> seen[f].query \notin {0, document.version},
                    fresh |-> seen[f].tree # document.version,
                    range |-> range, requested |-> r.outcome = "pending",
                    afterConfiguration |-> last.op = "configuration",
                    requeried |-> <<f, document.version>> \in last.cleared,
                    cleared |-> {}, query |-> NoQuery,
                    identifier |-> r.identifier, dependency |-> r.dependency,
                    location |-> NoLocation]
  /\ UNCHANGED <<activated, subscriptions, config, docs, pth, dep, res>>

WithoutIndex(q, i) == SubSeq(q, 1, i - 1) \o SubSeq(q, i + 1, Len(q))

\* OpenResolves with a callback that resolves the identifier again, on the
\* text the current file has when the target has been opened.
OpenResolvesRecomputes(i) ==
  /\ i \in 1..Len(pending)
  /\ pending[i].uri \in Files
  /\ \E document \in {Document(pending[i].uri)} :
     \E now \in {docs[pending[i].file].text} :
     \E d \in {IF ~Source(now).valid THEN NoDependency
               ELSE LET id == findIdentifierWinthinRange(Trees[now],
                                                          pending[i].range.start)
                    IN IF id.currentNode = 0 THEN NoDependency
                       ELSE findOriginatingModuleDependency(
                              Trees[now], id,
                              PairDependencies(findDependencies(Trees[now])))} :
     \E r \in {searchModuleThen(pending[i].uri, document, d.selected)} :
        /\ parsedModuleCache' = r.parsedCache
        /\ last' = [op |-> "then", file |-> document.fileName,
                    version |-> document.version, outcome |-> r.outcome,
                    parsed |-> r.parsed, extracted |-> FALSE,
                    lookups |-> r.lookups, repeat |-> FALSE,
                    repeatTable |-> FALSE, bumped |-> FALSE, fresh |-> FALSE,
                    range |-> Undefined, requested |-> FALSE,
                    afterConfiguration |-> FALSE, requeried |-> FALSE,
                    cleared |-> {},
                    query |-> [file |-> pending[i].file,
                               version |-> pending[i].version,
                               text |-> pending[i].text,
                               range |-> pending[i].range],
                    identifier |-> FALSE, dependency |-> d,
                    location |-> r.location]
        /\ seen' = IF GotTree(r.lookups, r.parsedCache, document.fileName)
                     THEN [seen EXCEPT ![document.fileName].tree = document.version]
                     ELSE seen
  /\ pending' = WithoutIndex(pending, i)
  /\ UNCHANGED <<activated, subscriptions, config, docs, moduleDependencyCache,
                 pth, dep, res>>

\* openTextDocument(uri) succeeds and the callback of searchModule runs.
OpenResolves(i) ==
  /\ i \in 1..Len(pending)
  /\ pending[i].uri \in Files
  /\ \E document \in {Document(pending[i].uri)} :
     \E r \in {searchModuleThen(pending[i].uri, document, pending[i].searchFor)} :
        /\ parsedModuleCache' = r.parsedCache
        /\ last' = [op |-> "then", file |-> document.fileName,
                    version |-> document.version, outcome |-> r.outcome,
                    parsed |-> r.parsed, extracted |-> FALSE,
                    lookups |-> r.lookups, repeat |-> FALSE,
                    repeatTable |-> FALSE, bumped |-> FALSE, fresh |-> FALSE,
                    range |-> Undefined, requested |-> FALSE,
                    afterConfiguration |-> FALSE, requeried |-> FALSE,
                    cleared |-> {},
                    query |-> [file |-> pending[i].file,
                               version |-> pending[i].version,
                               text |-> pending[i].text,
                               range |-> pending[i].range],
                    identifier |-> FALSE, dependency |-> pending[i].dependency,
                    location |-> r.location]
        /\ seen' = IF GotTree(r.lookups, r.parsedCache, document.fileName)
                     THEN [seen EXCEPT ![document.fileName].tree = document.version]
                     ELSE seen
  /\ pending' = WithoutIndex(pending, i)
  /\ UNCHANGED <<activated, subscriptions, config, docs, moduleDependencyCache,
                 pth, dep, res>>

\* openTextDocument(uri) fails: the promise of searchModule is rejected.
OpenFails(i) ==
  /\ i \in 1..Len(pending)
  /\ last' = [NoLast EXCEPT !.op = "openFailed", !.file = pending[i].uri,
                            !.outcome = "rejected",
                            !.dependency = pending[i].dependency]
  /\ pending' = WithoutIndex(pending, i)
  /\ UNCHANGED <<activated, subscriptions, config, docs, parsedModuleCache,
                 moduleDependencyCache, seen, pth, dep, res>>

\* The user edits a document: the host bumps its version.
Edit(f, t) ==
  /\ activated
  /\ docs[f].version < MaxVersion
  /\ docs' = [docs EXCEPT ![f] = [version |-> docs[f].version + 1, text |-> t,
                                  history |-> Append(docs[f].history, t)]]
  /\ last' = [NoLast EXCEPT !.op = "edit", !.file = f,
                            !.version = docs[f].version + 1]
  /\ UNCHANGED <<activated, subscriptions, config, parsedModuleCache,
                 moduleDependencyCache, pending, seen, pth, dep, res>>

\* The settings change: the onDidChangeConfiguration listener runs
\* initializeRequireJs and clearVersionObjectCaches.
ChangeConfiguration(settings) ==
  /\ activated
  /\ settings.moduleCacheSize = config.moduleCacheSize
  /\ settings # config
  /\ config' = settings
  /\ moduleDependencyCache' = LruReset(moduleDependencyCache)
  /\ parsedModuleCache' = LruReset(parsedModuleCache)
  /\ seen' = NotSeen
  /\ last' = [NoLast EXCEPT
               !.op = "configuration",
               \* the files and versions of the tables the reset drops
               !.cleared = {<<moduleDependencyCache.items[i].key,
                              moduleDependencyCache.items[i].value.version>> :
                            i \in 1..Len(moduleDependencyCache.items)}]
  /\ UNCHANGED <<activated, subscriptions, docs, pending, pth, dep, res>>

Ranges(t) ==
  {Undefined} \cup {[kind |-> "range", start |-> w] : w \in WordRanges(t)}

Next ==
  \/ Activate
  \/ \E f \in JsFiles : \E range \in Ranges(docs[f].text) : ProvideDefinition(f, range)
  \/ \E i \in 1..MaxPending : OpenResolves(i)
  \/ \E i \in 1..MaxPending : OpenFails(i)
  \/ \E f \in JsFiles : \E t \in TextsOf(f) : Edit(f, t)
  \/ \E settings \in Settings : ChangeConfiguration(settings)

Spec == Init /\ [][Next]_vars

\* searchModule alone: the provider's method called with a drawn target
\* file and a drawn searchFor, on drawn texts and settings, up to the
\* settlement of the promise it returns.
SearchFors == {Undefined, Str(<<>>), Str(N_foo), Str(N_baz), Str(N_local), Str(N_y)}

InitSearch ==
  /\ activated = TRUE
  /\ subscriptions = <<"onDidChangeConfiguration", "registerDefinitionProvider">>
  /\ config \in Settings
  /\ docs \in {[f \in Files |-> [version |-> 1, text |-> t[f], history |-> <<t[f]>>]] :
                 t \in {u \in [Files -> Texts] : \A f \in Files : u[f] \in TextsOf(f)}}
  /\ parsedModuleCache = NewLRU(IF Truthy(config.moduleCacheSize)
                                  THEN config.moduleCacheSize.num
                                  ELSE DefaultCacheSize)
  /\ moduleDependencyCache = parsedModuleCache
  /\ \E uri \in Files : \E searchFor \in SearchFors :
       pending = <<[uri |-> uri, searchFor |-> searchFor, file |-> F_main,
                    version |-> 1, text |-> docs[F_main].text, range |-> Undefined,
                    dependency |-> [NoDependency EXCEPT !.selected = searchFor]]>>
  /\ last = NoLast
  /\ seen = NotSeen
  /\ pth = PthIdle
  /\ dep = DepIdle
  /\ res = ResIdle

NextSearch ==
  \/ \E i \in 1..MaxPending : OpenResolves(i)
  \/ \E i \in 1..MaxPending : OpenFails(i)

SpecSearch == InitSearch /\ [][NextSearch]_vars

\* Path resolution alone, on drawn module paths and settings.
InitPath ==
  /\ SysIdle
  /\ config \in {s \in Settings : s.moduleCacheSize = Undefined /\ ~s.onlyNavigateToFile
                                  /\ s.pluginExtensions = Undefined}
  /\ pth \in PthInputs
  /\ dep = DepIdle
  /\ res = ResIdle

NextPath == ResolvePath

SpecPath == InitPath /\ [][NextPath]_vars

\* Dependency extraction alone, on drawn define/require headers.
InitDeps ==
  /\ SysIdle
  /\ config \in {s \in Settings : s.moduleCacheSize = Undefined /\ ~s.onlyNavigateToFile
                                  /\ s.pluginExtensions = Undefined}
  /\ pth = PthIdle
  /\ dep \in [pc : {"extract"}, src : HeaderSources]
  /\ res = ResIdle

NextDeps == ExtractDependencies

SpecDeps == InitDeps /\ [][NextDeps]_vars

\* Identifier resolution alone, on drawn factory bodies and word ranges.
InitResolve ==
  /\ SysIdle
  /\ config \in {s \in Settings : s.moduleCacheSize = Undefined /\ ~s.onlyNavigateToFile
                                  /\ s.pluginExtensions = Undefined}
  /\ pth = PthIdle
  /\ dep = DepIdle
  /\ \E s \in ResolveSources :
       /\ ResolveHeader(s)
       /\ \E r \in WordStarts(ParseTree(s)) :
            res = [pc |-> "find", src |-> s, range |-> r]

NextResolve ==
  \/ ResolveFind
  \/ ResolveStart
  \/ ResolveLoop

SpecResolve == InitResolve /\ [][NextResolve]_vars

\* Identifier resolution on members of calls: require('./s').baz and the
\* like.
InitRequire ==
  /\ SysIdle
  /\ config \in {s \in Settings : s.moduleCacheSize = Undefined /\ ~s.onlyNavigateToFile
                                  /\ s.pluginExtensions = Undefined}
  /\ pth = PthIdle
  /\ dep = DepIdle
  /\ \E s \in RequireSources :
       \E r \in WordStarts(ParseTree(s)) :
         res = [pc |-> "find", src |-> s, range |-> r]

SpecRequire == InitRequire /\ [][NextResolve]_vars

\* Identifier resolution after assignments of every kind of expression.
InitAssign ==
  /\ SysIdle
  /\ config \in {s \in Settings : s.moduleCacheSize = Undefined /\ ~s.onlyNavigateToFile
                                  /\ s.pluginExtensions = Undefined}
  /\ pth = PthIdle
  /\ dep = DepIdle
  /\ \E s \in AssignSources :
       \E r \in WordStarts(ParseTree(s)) :
         res = [pc |-> "find", src |-> s, range |-> r]

SpecAssign == InitAssign /\ [][NextResolve]_vars

-----------------------------------------------------------------------------
(* Properties of the dependency extraction *)

Distinct(q) == \A i, j \in 1..Len(q) : q[i] = q[j] => i = j

\* C1: getModuleDependencies pairs the factory's formal parameters with
\* the module paths by position, the same for define and require and for
\* the named form: the table of paths ['a','b'] and parameters (x, y) is
\* exactly {x: 'a', y: 'b'}.
C1_PairsByPosition ==
  dep.pc = "done" /\ dep.src.hasFactory =>
    /\ dep.src.paths = <<P_a, P_b>> /\ dep.src.params = <<N_x, N_y>>
         => dep.table = (N_x :> Str(P_a)) @@ (N_y :> Str(P_b))
    /\ Distinct(dep.src.params) /\ Len(dep.src.params) <= Len(dep.src.paths)
         => /\ DOMAIN dep.table = {dep.src.params[i] : i \in 1..Len(dep.src.params)}
            /\ \A i \in 1..Len(dep.src.params) :
                 dep.table[dep.src.params[i]] = Str(dep.src.paths[i])

\* The named form define('myName', ['a','b'], function (x, y) {}) has
\* been extracted to {x: 'a', y: 'b'}.
C1_Witness ==
  /\ dep.pc = "done"
  /\ dep.src.named /\ dep.src.hasFactory /\ dep.src.callee = N_define
  /\ dep.src.paths = <<P_a, P_b>> /\ dep.src.params = <<N_x, N_y>>
  /\ dep.table = (N_x :> Str(P_a)) @@ (N_y :> Str(P_b))

-----------------------------------------------------------------------------
(* Properties of the path resolution *)

D_projectSrc == <<"/", "p", "r", "o", "j", "e", "c", "t", "/", "s", "r", "c">>
R_style == D_projectSrc \o <<"/", "s", "t", "y", "l", "e">>

\* The directory of each current file, without a trailing separator.
DirectoryOf(f) == IF f = F_main THEN D_projectSrc ELSE <<>>

HasChar(s, c) == \E i \in 1..Len(s) : s[i] = c

\* No segment of the path is empty, '.' or '..'.
PlainSegments(p) ==
  \A i \in 1..Len(Split(p)) : Split(p)[i] \notin {<<>>, <<".">>, DotDot}

IsPluginPath(p, k) ==
  /\ k \in 2..Len(p)
  /\ p[k] = "!"
  /\ \A i \in 1..(k - 1) : p[i] # "!"

ExtensionFor(settings, plugin) ==
  IF settings.kind = "object" /\ plugin \in DOMAIN settings.map
    THEN settings.map[plugin]
    ELSE <<>>

\* C9: for 'plugin!target' the extension configured for the plugin is
\* appended only when target does not end with it already, and nothing is
\* appended for a plugin without a configured extension; with '.html'
\* configured for 'text', 'text!./template.html' is template.html in the
\* directory of the current file.
C9_PluginPath ==
  pth.pc = "done" =>
    /\ \A k \in 1..Len(pth.modulePath) :
         IsPluginPath(pth.modulePath, k) =>
           LET plugin == SubSeq(pth.modulePath, 1, k - 1)
               target == SubSeq(pth.modulePath, k + 1, Len(pth.modulePath))
               ext == ExtensionFor(pth.pluginExtensions, plugin)
           IN pth.filePath =
                IF ext # <<>> /\ ~EndsWith(target, ext) THEN target \o ext
                ELSE target
    /\ pth.currentFilePath = F_main /\ pth.pluginExtensions = ConfiguredExtensions
         /\ pth.modulePath \in {P_textTemplateHtml, P_textTemplate}
         => pth.result = F_template
    /\ pth.currentFilePath = F_main /\ pth.modulePath = P_cssStyle
         => pth.result = R_style

\* 'text!./template.html' has been resolved with '.html' configured for
\* the plugin 'text'.
C9_Witness ==
  /\ pth.pc = "done"
  /\ pth.modulePath = P_textTemplateHtml
  /\ pth.pluginExtensions = ConfiguredExtensions
  /\ pth.currentFilePath = F_main
  /\ pth.filePath = <<".", "/">> \o SubSeq(F_template, 14, Len(F_template))
  /\ pth.result = F_template

-----------------------------------------------------------------------------
(* Properties of the identifier resolution *)

\* The statement the word range of the run is on, when it is on a line of
\* the factory body (statement i is on the zero-based line i).
OnStatement == res.range.line \in 1..Len(res.src.body)
CaretStatement == res.src.body[res.range.line]

\* Column of the identifier a statement reads a value from: the
\* expression itself, the object of the member expression, the right-hand
\* side or the callee of the new expression.
UsageColumn(st) ==
  CASE st.s \in {"use", "member"} -> 1
    [] st.s = "decl" -> 1 + 4 + Len(st.a) + 3
    [] st.s = "assign" -> 1 + Len(st.a) + 3
    [] st.s = "declnew" -> 1 + 4 + Len(st.a) + 3 + 4
    [] OTHER -> -1

UsedName(st) == IF st.s \in {"use", "member"} THEN st.a ELSE st.b

\* The word range is on a usage of the name in the factory body.
CaretOnUsageOf(name) ==
  /\ OnStatement
  /\ UsageColumn(CaretStatement) = res.range.character
  /\ UsedName(CaretStatement) = name

\* The word range is on the property of a member expression a.b.
CaretOnProperty ==
  /\ OnStatement
  /\ CaretStatement.s = "member"
  /\ res.range.character = 1 + Len(CaretStatement.a) + 1

\* C4: resolving a usage of a bound formal parameter in the factory body,
\* selected at its start, yields imported = selected = the parameter's
\* name and the module path of the parameter's table entry.
C4_BoundParameterUsage ==
  res.pc # "find" /\ CaretOnUsageOf(N_foo) =>
    /\ res.pc # "none"
    /\ res.pc = "done" =>
         /\ res.st.imported = N_foo
         /\ res.st.selected = N_foo
         /\ res.st.modulePath = Str(P_sibling)
         /\ res.st.modulePath = res.table[N_foo]

\* foo has been resolved from the right-hand side of var local = foo.
C4_Witness ==
  /\ res.pc = "done"
  /\ CaretOnUsageOf(N_foo)
  /\ CaretStatement = Stmt("decl", N_local, N_foo)
  /\ res.st.imported = N_foo /\ res.st.selected = N_foo
  /\ res.st.modulePath = Str(P_sibling)

\* C5: selecting the property bar of a non-computed member expression
\* foo.bar whose object foo is a bound formal parameter yields
\* imported = 'foo', selected = 'bar' and the module path table['foo'].
C5_MemberOfBoundParameter ==
  res.pc # "find" /\ CaretOnProperty /\ CaretStatement.a = N_foo =>
    /\ res.pc # "none"
    /\ res.pc = "done" =>
         /\ res.st.imported = N_foo
         /\ res.st.selected = CaretStatement.b
         /\ res.st.modulePath = res.table[N_foo]
         /\ res.st.modulePath = Str(P_sibling)

\* baz has been resolved in foo.baz.
C5_Witness ==
  /\ res.pc = "done"
  /\ CaretOnProperty
  /\ CaretStatement = Stmt("member", N_foo, N_baz)
  /\ res.st.imported = N_foo /\ res.st.selected = N_baz
  /\ res.st.modulePath = Str(P_sibling)

\* The name the last declaration or assignment name = other or
\* name = new other() among the first k statements gives to name; <<>>
\* when there is none.
RECURSIVE LastRename(_, _, _)
LastRename(body, k, name) ==
  IF k = 0 THEN <<>>
  ELSE IF body[k].s \in {"decl", "assign", "declnew"} /\ body[k].a = name
    THEN body[k].b
  ELSE LastRename(body, k - 1, name)

\* Following the renames in force before statement k leads from name to
\* the bound parameter foo in at most fuel steps.
RECURSIVE RenamedFromFoo(_, _, _, _)
RenamedFromFoo(body, k, name, fuel) ==
  IF name = N_foo THEN TRUE
  ELSE IF fuel = 0 \/ LastRename(body, k, name) = <<>> THEN FALSE
  ELSE RenamedFromFoo(body, k, LastRename(body, k, name), fuel - 1)

\* C6: selecting the member baz of local.baz after var local = foo follows
\* the rename chain, through any number of renames, to the bound
\* parameter: imported = 'foo', module path = table['foo'], selected
\* stays 'baz'.
C6_RenameChain ==
  res.pc # "find" /\ CaretOnProperty /\ CaretStatement.a # N_foo
    /\ RenamedFromFoo(res.src.body, res.range.line - 1, CaretStatement.a,
                      Len(res.src.body)) =>
    /\ res.pc # "none"
    /\ res.pc = "done" =>
         /\ res.st.imported = N_foo
         /\ res.st.selected = CaretStatement.b
         /\ res.st.modulePath = res.table[N_foo]
         /\ res.st.modulePath = Str(P_sibling)

\* The property of x.x has been resolved through var local = foo and
\* var x = local: two renames.
C6_Witness ==
  /\ res.pc = "done"
  /\ CaretOnProperty
  /\ CaretStatement = Stmt("member", N_x, N_x)
  /\ res.passes = 2
  /\ res.st.imported = N_foo /\ res.st.selected = N_x
  /\ res.st.modulePath = Str(P_sibling)

\* C7: the rename loop terminates for every set of recorded renames, a
\* variable renamed to itself and longer cycles included: it makes at
\* most one pass more than there are recorded renames, and when it ends
\* without a bound name it returns no module path.
C7_RenameLoopTerminates ==
  res.pc \in {"loop", "done"} =>
    /\ res.passes + Cardinality(DOMAIN res.st.assignments)
         <= Cardinality(DOMAIN res.recorded) + 1
    /\ res.pc = "loop" =>
         res.passes + Cardinality(DOMAIN res.st.assignments)
           = Cardinality(DOMAIN res.recorded)
    /\ res.pc = "done" =>
         \/ Truthy(res.st.modulePath) /\ res.st.modulePath = res.table[res.st.imported]
         \/ /\ res.st.modulePath = Undefined
            /\ res.st.imported \notin DOMAIN res.st.assignments

\* x has been resolved after var x = x: the loop has ended after the
\* self rename with no module path.
C7_Witness ==
  /\ res.pc = "done"
  /\ CaretOnUsageOf(N_x)
  /\ N_x \in DOMAIN res.recorded
  /\ res.recorded[N_x] = N_x
  /\ res.passes = 2
  /\ res.st.modulePath = Undefined

-----------------------------------------------------------------------------
(* Properties of the versioned caches and of a query as a whole (Spec) *)

\* The lookups of the handler that ran last.
LastLookups == {last.lookups[i] : i \in 1..Len(last.lookups)}

\* C2: an object returned by getCachedVersionedObject for a document was
\* stored under the file name of the document with the version the document
\* has now; when the stored version differs, the lookup returns nothing and
\* the entry is gone from the cache when the lookup returns, before the
\* caller computes anything.
C2_VersionedHit ==
  \A l \in LastLookups :
    /\ l.version = docs[l.fileName].version
    /\ Truthy(l.object) =>
         /\ l.found
         /\ l.entry.version = l.version
         /\ l.entry.object = l.object
    /\ l.found /\ l.entry.version # l.version =>
         /\ l.object = Null
         /\ ~l.kept

\* A lookup met an entry of an older version of the document.
C2_Witness ==
  \E l \in LastLookups :
    /\ l.found
    /\ l.entry.version # l.version
    /\ l.object = Null
    /\ ~l.kept

\* No entry of the file of the last query with another version than the
\* one queried.
NoOldEntry(cache) ==
  \A i \in 1..Len(cache.items) :
    cache.items[i].key = last.file => cache.items[i].value.version = last.version

CapacityHoldsAllFiles ==
  /\ parsedModuleCache.max >= Cardinality(JsFiles)
  /\ moduleDependencyCache.max >= Cardinality(JsFiles)

C10_ParseErrorIsAbsentResult ==
  last.op = "provideDefinition" /\ ~Source(docs[last.file].text).valid =>
    last.outcome = "absent"

\* C11: when the host fails to open the target file the promise of the
\* query is rejected and no location is produced, and that failure is the
\* only one that rejects the promise.
C11_OnlyOpenFailureRejects ==
  /\ last.op = "openFailed" =>
       /\ last.outcome = "rejected"
       /\ last.location = NoLocation
  /\ last.outcome = "rejected" => last.op = "openFailed"

\* The Identifier nodes of a tree with the given name.
Occurrences(tree, name) ==
  {i \in 1..Len(tree) : tree[i].type = "Identifier" /\ tree[i].name = name}

First(S) == CHOOSE i \in S : \A j \in S : i <= j

\* The Identifier nodes searchModule is to find in the opened target: those
\* named searchFor, when the search is not disabled, searchFor is not
\* empty and the target has a tree.
Sought ==
  IF /\ ~config.onlyNavigateToFile
     /\ Truthy(last.dependency.selected)
     /\ last.file \in JsFiles
     /\ Source(docs[last.file].text).valid
    THEN Occurrences(Trees[docs[last.file].text], last.dependency.selected.chars)
    ELSE {}

\* C12: the promise of searchModule resolves to the target path with the
\* range of the first identifier named searchFor exactly when 'navigate to
\* file only' is off, searchFor is not empty and such an identifier occurs
\* in the tree of the target; otherwise to the target path at line 0,
\* column 0.
C12_SearchModuleLocation ==
  last.op = "then" /\ last.outcome = "location" =>
    /\ last.location.uri = last.file
    /\ IF Sought # {}
         THEN LET node == Trees[docs[last.file].text][First(Sought)]
              IN /\ last.location.start = <<node.line - 1, node.column>>
                 /\ last.location.end = <<node.line - 1, node.endColumn>>
         ELSE /\ last.location.start = <<0, 0>>
              /\ last.location.end = <<0, 0>>

\* baz has been found in main.js below the first line.
C12_Witness ==
  /\ last.op = "then" /\ last.outcome = "location"
  /\ last.file = F_main
  /\ last.dependency.selected = Str(N_baz)
  /\ Sought # {}
  /\ last.location.start[1] > 0

\* The tree and the dependency table of the text the last query ran on.
QueriedTree == Trees[docs[last.file].text]
QueriedTable == PairDependencies(findDependencies(QueriedTree))

\* An Identifier node starts where the word range of the last query starts.
IdentifierAtRange ==
  \E i \in 1..Len(QueriedTree) :
    /\ QueriedTree[i].type = "Identifier"
    /\ QueriedTree[i].line = last.range.start.line + 1
    /\ QueriedTree[i].column = last.range.start.character

\* The three lookup misses of a query on a text that parses.
NoWordRange == last.range = Undefined
NoIdentifierAtRange == last.range # Undefined /\ ~IdentifierAtRange
NoModulePath ==
  /\ last.range # Undefined
  /\ IdentifierAtRange
  /\ last.dependency.imported.kind = "string"
  /\ ~Truthy(Lookup(QueriedTable, last.dependency.imported.chars))

\* C13: a query with no word range at the position, with no Identifier
\* node starting at the start of the word range, or with no module path
\* for the resolved name ends with an absent result: nothing is thrown and
\* no target file is requested from the host.
C13_LookupMissIsAbsent ==
  last.op = "provideDefinition" =>
    /\ NoWordRange => last.outcome = "absent" /\ ~last.requested
    /\ Source(docs[last.file].text).valid /\ (NoIdentifierAtRange \/ NoModulePath) =>
         /\ last.outcome = "absent"
         /\ ~last.requested
         /\ ~last.identifier <=> NoIdentifierAtRange

\* The name at the position went through the lookup and has no module path.
C13_Witness ==
  /\ last.op = "provideDefinition"
  /\ Source(docs[last.file].text).valid
  /\ NoModulePath
  /\ last.identifier
  /\ last.outcome = "absent"

\* C14: when the configuration-change listener has run, the tree cache and
\* the table cache of the registered provider are empty, and the query
\* that follows finds nothing cached: it parses, and extracts the table
\* when it gets that far, also at a revision queried before.
C14_ConfigurationClearsCaches ==
  /\ last.op = "configuration" =>
       /\ parsedModuleCache.items = <<>>
       /\ moduleDependencyCache.items = <<>>
  /\ last.op = "provideDefinition" /\ last.afterConfiguration =>
       /\ \A l \in LastLookups : ~l.found
       /\ last.lookups # <<>> => last.parsed
       /\ last.identifier => last.extracted

\* The query after the change has parsed and extracted again at a
\* revision whose tree and table an earlier query had obtained.
C14_Witness ==
  /\ last.op = "provideDefinition"
  /\ last.afterConfiguration
  /\ last.requeried
  /\ last.identifier
  /\ last.parsed /\ last.extracted

\* The entries of context.subscriptions.
Subscribed == {subscriptions[i] : i \in 1..Len(subscriptions)}

\* C15: activate(context) leaves exactly four entries in
\* context.subscriptions: the registration of the definition provider, the
\* listener for configuration changes and the listeners that clear the
\* caches when a document changes and when a document is closed.
C15_FourSubscriptions ==
  activated =>
    /\ Len(subscriptions) = 4
    /\ Subscribed = {"registerDefinitionProvider", "onDidChangeConfiguration",
                     "onDidChangeTextDocument", "onDidCloseTextDocument"}

\* What a query computes from a text of the current file and a word
\* range: the binding and the path of the target file.
Captured(q, pluginExtensions) ==
  LET tree == Trees[q.text]
      identifier == findIdentifierWinthinRange(tree, q.range.start)
      dependency ==
        findOriginatingModuleDependency(tree, identifier,
                                        PairDependencies(findDependencies(tree)))
  IN [dependency |-> dependency,
      uri |-> resolveModulePath(dependency.modulePath.chars, q.file, pluginExtensions)]

\* C16: a query suspended on the opening of its target file completes with
\* the identifier, the binding and the module path it computed from the
\* text the current file had when the query started, whatever edits bump
\* the revision of the current file in the meantime.
C16_SnapshotWins ==
  /\ \A i \in 1..Len(pending) :
       /\ pending[i].version <= docs[pending[i].file].version
       /\ \E e \in {Undefined, ConfiguredExtensions} :
            /\ pending[i].dependency = Captured(pending[i], e).dependency
            /\ pending[i].searchFor = Captured(pending[i], e).dependency.selected
            /\ pending[i].uri = Captured(pending[i], e).uri
  /\ last.op = "then" =>
       /\ \E e \in {Undefined, ConfiguredExtensions} :
            /\ last.dependency = Captured(last.query, e).dependency
            /\ last.file = Captured(last.query, e).uri
       /\ last.outcome = "location" => last.location.uri = last.file

\* The callback has run after an edit gave the current file another text:
\* the binding is the one of the text the query started on.
C16_Witness ==
  /\ last.op = "then"
  /\ last.outcome = "location"
  /\ docs[last.query.file].version > last.query.version
  /\ docs[last.query.file].text = "main2"
  /\ last.query.text = "main1"
  /\ last.dependency.imported = Str(N_foo)
  /\ last.dependency.modulePath = Str(P_sibling)

-----------------------------------------------------------------------------
(* Further properties of the identifier resolution (SpecResolve) *)

\* C17: when the rename chain ends in a table hit, selected is the final
\* resolved name unless the selection is the property of a member access;
\* the object of a member expression, such as the first x in x.x, is no
\* such property.
C17_SelectedFollowsRename ==
  res.pc = "done" /\ OnStatement /\ res.passes >= 1 /\ Truthy(res.st.modulePath) =>
    IF CaretOnProperty
      THEN res.st.selected = CaretStatement.b
      ELSE res.st.selected = res.st.imported

\* The word range is on the property b of a statement callee(...).b.
CaretOnCallProperty ==
  /\ OnStatement
  /\ CaretStatement.s \in ReqKinds
  /\ res.range.character = 1 + Len(CaretStatement.a) + 1 + ReqWidth(CaretStatement) + 2

\* C18: selecting the property of a member expression whose object is a
\* call takes the short cut (module path = the argument, selected = the
\* property, no table lookup) exactly when the callee is require or
\* requirejs and the call has one argument that is a string literal;
\* otherwise the normal lookup starts with imported = selected = the
\* property.
C18_RequireShortcut ==
  res.pc \in {"loop", "done"} /\ CaretOnCallProperty =>
    IF CaretStatement.s = "reqstr" /\ CaretStatement.a \in {N_require, N_requirejs}
      THEN /\ res.pc = "done"
           /\ res.st.shortcut
           /\ res.st.modulePath = Str(A_path)
           /\ res.st.selected = CaretStatement.b
      ELSE /\ ~res.st.shortcut
           /\ res.passes = 0 =>
                /\ res.st.imported = CaretStatement.b
                /\ res.st.selected = CaretStatement.b
           /\ res.pc = "done" /\ Truthy(res.st.modulePath) =>
                res.st.modulePath = res.table[res.st.imported]

-----------------------------------------------------------------------------
(* Further properties of the path resolution (SpecPath) *)

\* Position of the first '!' of a path, 0 when it has none.
FirstSeparator(p) ==
  IF HasChar(p, "!") THEN CHOOSE k \in 1..Len(p) : p[k] = "!" /\ \A i \in 1..(k - 1) : p[i] # "!"
  ELSE 0

\* The target of a path split at position k, with the extension the
\* settings have for the plugin before k when the target lacks it.
SplitAt(p, k, settings) ==
  LET target == SubSeq(p, k + 1, Len(p))
      ext == ExtensionFor(settings, SubSeq(p, 1, k - 1))
  IN IF ext # <<>> /\ ~EndsWith(target, ext) THEN target \o ext ELSE target

\* C19 as stated: a '!' at any index, the first included, splits the path
\* into plugin name and target and no '.js' is appended; '.js' is appended
\* only to paths without '!'.
C19_SeparatorAtAnyIndex ==
  pth.pc = "done" =>
    IF FirstSeparator(pth.modulePath) >= 1
      THEN pth.filePath = SplitAt(pth.modulePath, FirstSeparator(pth.modulePath),
                                  pth.pluginExtensions)
      ELSE pth.filePath = pth.modulePath \o JsSuffix

\* C19, amended: the first '!' splits the path when at least one character
\* precedes it; a path without '!' and a path that starts with '!' get
\* '.js' appended as a whole.
C19_SeparatorAfterPluginName ==
  pth.pc = "done" =>
    IF FirstSeparator(pth.modulePath) >= 2
      THEN pth.filePath = SplitAt(pth.modulePath, FirstSeparator(pth.modulePath),
                                  pth.pluginExtensions)
      ELSE pth.filePath = pth.modulePath \o JsSuffix

\* A path that starts with '!' has been resolved: '!a' to '!a.js'.
C19_Witness ==
  /\ pth.pc = "done"
  /\ pth.modulePath = <<"!", "a">>
  /\ pth.filePath = <<"!", "a", ".", "j", "s">>

-----------------------------------------------------------------------------
(* Headers with unequal numbers of paths and parameters (SpecResolve) *)

\* The formal parameters beyond the module paths, and the module paths
\* beyond the formal parameters, of the drawn header.
TrailingParams ==
  {res.src.params[i] : i \in (Len(res.src.paths) + 1)..Len(res.src.params)}
TrailingPaths ==
  {res.src.paths[i] : i \in (Len(res.src.params) + 1)..Len(res.src.paths)}

\* C20: a formal parameter beyond the module paths is unbound: its lookup
\* yields no module path, least of all the path of another position, and
\* selecting it goes the way of a name missing from the table, the rename
\* chain and then a module path found through it or none, without an
\* error; a module path beyond the formal parameters is the value of no
\* entry of the table.
C20_TrailingUnbound ==
  res.pc \in {"loop", "done"} =>
    /\ \A param \in TrailingParams :
         /\ ~Truthy(Lookup(res.table, param))
         /\ \A i \in 1..Len(res.src.paths) :
              Lookup(res.table, param) # Str(res.src.paths[i])
         /\ CaretOnUsageOf(param) =>
              /\ res.passes = 0 =>
                   /\ res.pc = "loop"
                   /\ res.st.imported = param
                   /\ res.st.modulePath = Undefined
              /\ res.pc = "done" =>
                   /\ res.passes >= 1
                   /\ \/ res.st.modulePath = Undefined
                      \/ /\ res.st.imported \notin TrailingParams
                         /\ res.st.modulePath = res.table[res.st.imported]
                         /\ Truthy(res.st.modulePath)
    /\ \A path \in TrailingPaths :
         \A k \in DOMAIN res.table : res.table[k] # Str(path)
    /\ DOMAIN res.table = {res.src.params[i] : i \in 1..Len(res.src.params)}

\* The trailing parameter local has been selected and has no module path.
C20_Witness ==
  /\ res.pc = "done"
  /\ N_local \in TrailingParams
  /\ CaretOnUsageOf(N_local)
  /\ res.st.imported = N_local
  /\ res.st.modulePath = Undefined

\* The text of the run cut after the line of the word range: the
\* statements after the point of use are gone.
Truncated == [res.src EXCEPT !.body = SubSeq(@, 1, res.range.line)]

\* C21: only the declarations and assignments visited before the selected
\* identifier contribute renames: the identifier found, the renames
\* recorded and the result of the resolution are those of the text without
\* the statements after the point of use.
C21_LaterRenamesIgnored ==
  res.pc \in {"loop", "done"} =>
    /\ findIdentifierWinthinRange(ParseTree(Truncated), res.range) = res.identifier
    /\ res.recorded
         = OriginStart(ParseTree(Truncated), res.identifier, res.table).assignments
    /\ res.pc = "done" =>
         OriginResult(res.st)
           = findOriginatingModuleDependency(ParseTree(Truncated), res.identifier,
                                             res.table)

\* local has been resolved to no module path although var local = foo
\* follows the point of use.
C21_Witness ==
  /\ res.pc = "done"
  /\ CaretOnUsageOf(N_local)
  /\ LastRename(res.src.body, res.range.line, N_local) = <<>>
  /\ \E j \in (res.range.line + 1)..Len(res.src.body) :
       res.src.body[j] = Stmt("decl", N_local, N_foo)
  /\ N_local \notin DOMAIN res.recorded
  /\ res.st.modulePath = Undefined

\* The nodes of the text of the run that start below the line of the word
\* range.
PastTheLine ==
  {i \in 1..Len(ParseTree(res.src)) :
     ParseTree(res.src)[i].line > res.range.line + 1}

\* C22: findIdentifierWinthinRange stops traversing once it has passed the
\* line of the selection: the first node that starts on a later line is
\* the last node it visits.
C22_StopsPastTheLine ==
  res.pc \in {"none", "start", "loop", "done"} /\ PastTheLine # {} =>
    res.identifier.visited <= First(PastTheLine)

\* The items of a cache, and the text a file had at a version.
Items(cache) == {cache.items[i] : i \in 1..Len(cache.items)}
TextAt(f, v) == docs[f].history[v]

\* The table extracted from the tree of a text.
TableOf(t) == [kind |-> "object", map |-> PairDependencies(findDependencies(Trees[t]))]

\* C23: an entry of the table cache for a file, tagged with version v,
\* holds the table extracted from the tree of the text the file had at
\* version v, and an entry of the tree cache the tree of that text: for
\* the same file and version the two caches agree.
C23_CachesMatchTheText ==
  /\ \A it \in Items(moduleDependencyCache) :
       /\ it.key \in JsFiles
       /\ it.value.version \in 1..docs[it.key].version
       /\ Source(TextAt(it.key, it.value.version)).valid
       /\ it.value.object = TableOf(TextAt(it.key, it.value.version))
  /\ \A it \in Items(parsedModuleCache) :
       /\ it.key \in JsFiles
       /\ it.value.version \in 1..docs[it.key].version
       /\ it.value.object = AstRoot(TextAt(it.key, it.value.version))
  /\ \A d \in Items(moduleDependencyCache) : \A p \in Items(parsedModuleCache) :
       d.key = p.key /\ d.value.version = p.value.version =>
         d.value.object = TableOf(p.value.object.text)

\* After an edit of main.js a query has extracted the table of the new
\* text, while the tree cache, of capacity 1, holds another file.
C23_Witness ==
  /\ last.op = "then"
  /\ docs[F_main].version = 2
  /\ docs[F_main].history[1] = "main1" /\ docs[F_main].text = "main2"
  /\ \E d \in Items(moduleDependencyCache) :
       d.key = F_main /\ d.value.version = 2 /\ d.value.object = TableOf("main2")
  /\ \A p \in Items(parsedModuleCache) : p.key # F_main

\* getVariableAssignments has run: the first table lookup missed.
Collected == res.pc = "loop" \/ (res.pc = "done" /\ res.passes > 0)

\* The statements that assign another kind of expression to local.
OtherAssignments ==
  { Stmt("decllit", N_local, <<>>), Stmt("assignlit", N_local, <<>>),
    Stmt("assigncall", N_local, N_foo), Stmt("assignmember", N_local, N_foo) }

\* C24: the rename recorded for a variable is the right-hand identifier,
\* or the callee of the new expression, of the last declaration or
\* assignment of that form up to the point of use; assignments of other
\* kinds of expressions neither record nor remove a rename.
C24_LastRenameRecorded ==
  Collected =>
    \A name \in DOMAIN res.recorded \cup {N_local, N_foo, N_x, N_baz} :
      IF LastRename(res.src.body, res.range.line, name) = <<>>
        THEN name \notin DOMAIN res.recorded
        ELSE /\ name \in DOMAIN res.recorded
             /\ res.recorded[name] = LastRename(res.src.body, res.range.line, name)

\* baz of local.baz has been resolved to the module of foo through
\* var local = foo, with an assignment of another kind of expression to
\* local in between.
C24_Witness ==
  /\ res.pc = "done"
  /\ Len(res.src.body) = 3
  /\ res.src.body[1] = Stmt("decl", N_local, N_foo)
  /\ res.src.body[2] \in OtherAssignments
  /\ res.src.body[3] = Stmt("member", N_local, N_baz)
  /\ res.range.line = 3
  /\ CaretOnProperty
  /\ res.recorded[N_local] = N_foo
  /\ res.st.imported = N_foo
  /\ res.st.modulePath = Str(P_sibling)

====
